---- MODULE Spec2Model ----
(***************************************************************************)
(* A model of the AstrBot Git push plugin: the change-detection cache      *)
(* (utils/storage.py), the watch configuration (utils/config.py), the      *)
(* provider adapters (providers/*.py) and the check/notify cycle, the      *)
(* group expansion and the timer loop of main.py.                          *)
(*                                                                         *)
(* Python strings are TLA+ strings (TLC evaluates \o, Len and SubSeq on    *)
(* them).  The emoji and CJK labels of the message templates are written   *)
(* in ASCII.  Optional[T] is a sequence of length 0 (None) or 1.  A dict   *)
(* is a function whose DOMAIN is the set of its keys.                      *)
(***************************************************************************)
EXTENDS Integers, Sequences, FiniteSets, TLC

\* ------------------------------------------------------------------ bounds
MaxCycles == 2
MaxCrashes == 1

\* ------------------------------------------------------- Python primitives
None == <<>>
Some(v) == <<v>>

EmptyDict == <<>>

Min(a, b) == IF a <= b THEN a ELSE b

\* s[:n]
Prefix(s, n) == SubSeq(s, 1, Min(n, Len(s)))

\* sub in s
Contains(s, sub) ==
    \E i \in 1..(Len(s) - Len(sub) + 1) : SubSeq(s, i, i + Len(sub) - 1) = sub

\* s.startswith(p)
StartsWith(s, p) == Len(p) <= Len(s) /\ SubSeq(s, 1, Len(p)) = p

\* s.endswith(p)
EndsWith(s, p) == Len(p) <= Len(s) /\ SubSeq(s, Len(s) - Len(p) + 1, Len(s)) = p

\* d.get(k, dflt)
Get(d, k, dflt) == IF k \in DOMAIN d THEN d[k] ELSE dflt

\* d[k] = v on a copy of d
DictSet(d, k, v) == [x \in DOMAIN d \cup {k} |-> IF x = k THEN v ELSE d[x]]

\* del d[k] for every k in ks
DictDel(d, ks) == [x \in DOMAIN d \ ks |-> d[x]]

RECURSIVE SetToSeq(_)
\* list(s): the elements of a set in some order
SetToSeq(s) ==
    IF s = {} THEN <<>>
    ELSE LET x == CHOOSE y \in s : TRUE IN <<x>> \o SetToSeq(s \ {x})

\* set(l)
SeqToSet(l) == {l[i] : i \in 1..Len(l)}

\* str.lower() on the provider names of the model
Lower(s) ==
    CASE s = "GitHub" -> "github"
      [] s = "GitLab" -> "gitlab"
      [] s = "CNB" -> "cnb"
      [] OTHER -> s

\* ------------------------------------------------------ utils/storage.py
\* The cache file: missing, unreadable (not JSON) or a JSON object.
DiskMissing == [state |-> "missing", data |-> EmptyDict]
DiskCorrupt == [state |-> "corrupt", data |-> EmptyDict]
DiskOf(cache) == [state |-> "ok", data |-> cache]

\* a load_cache that answers with a record of its own when the file cannot
\* be read
load_cache_default(file) ==
    IF file.state = "ok" THEN file.data
    ELSE ("commit:github:octo/repo:dev" :> [sha |-> "abc1234"])

\* DataStorage.load_cache
load_cache(file) == IF file.state = "ok" THEN file.data ELSE EmptyDict

\* DataStorage.save_cache: io is what the file system does with the write:
\* "ok", "noopen" (open() raises, the file is untouched) or "partial"
\* (the file was truncated and the dump did not complete).  The exception
\* is swallowed.
save_cache(file, cache, io) ==
    CASE io = "ok" -> DiskOf(cache)
      [] io = "noopen" -> file
      [] OTHER -> DiskCorrupt

WriteOutcomes == {"ok", "noopen", "partial"}

\* UpdateCache._load: the pair (_cache, _repo_cache) after loading
UpdateCache_load(file) ==
    LET c == load_cache(file) IN
    [cache |-> c,
     repo_cache |-> IF "_group_repos" \in DOMAIN c
                    THEN [g \in DOMAIN c["_group_repos"] |-> SeqToSet(c["_group_repos"][g])]
                    ELSE EmptyDict]

\* a _save that writes _cache without bringing "_group_repos" up to date
SavedCache_stale(cache, repo_cache) == cache

\* UpdateCache._save: the in-memory _cache after the save
SavedCache(cache, repo_cache) ==
    DictSet(cache, "_group_repos", [g \in DOMAIN repo_cache |-> SetToSeq(repo_cache[g])])

\* a commit key that leaves the branch out
_get_commit_key_per_repo(provider, repo, branch) ==
    "commit:" \o provider \o ":" \o repo

_get_commit_key(provider, repo, branch) ==
    "commit:" \o provider \o ":" \o repo \o ":" \o branch

_get_release_key(provider, repo) == "release:" \o provider \o ":" \o repo

\* a lookup that reads the record of the repository's unnamed branch
get_cached_commit_sha_unnamed(cache, provider, repo, branch) ==
    LET rec == Get(cache, _get_commit_key(provider, repo, ""), EmptyDict) IN
    IF "sha" \in DOMAIN rec THEN Some(rec["sha"]) ELSE None

get_cached_commit_sha(cache, provider, repo, branch) ==
    LET rec == Get(cache, _get_commit_key(provider, repo, branch), EmptyDict) IN
    IF "sha" \in DOMAIN rec THEN Some(rec["sha"]) ELSE None

\* a first-check test with the membership test the wrong way round
is_first_commit_check_inverted(cache, provider, repo, branch) ==
    _get_commit_key(provider, repo, branch) \in DOMAIN cache

is_first_commit_check(cache, provider, repo, branch) ==
    _get_commit_key(provider, repo, branch) \notin DOMAIN cache

\* a write that files the sha under the repository's unnamed branch
set_cached_commit_sha_unnamed(cache, provider, repo, branch, sha) ==
    LET key == _get_commit_key(provider, repo, "") IN
    DictSet(cache, key, DictSet(Get(cache, key, EmptyDict), "sha", sha))

\* set_cached_commit_sha, before its _save
set_cached_commit_sha(cache, provider, repo, branch, sha) ==
    LET key == _get_commit_key(provider, repo, branch) IN
    DictSet(cache, key, DictSet(Get(cache, key, EmptyDict), "sha", sha))

get_cached_release_tag(cache, provider, repo) ==
    LET rec == Get(cache, _get_release_key(provider, repo), EmptyDict) IN
    IF "tag" \in DOMAIN rec THEN Some(rec["tag"]) ELSE None

is_first_release_check(cache, provider, repo) ==
    _get_release_key(provider, repo) \notin DOMAIN cache

\* set_cached_release_tag, before its _save
set_cached_release_tag(cache, provider, repo, tag) ==
    LET key == _get_release_key(provider, repo) IN
    DictSet(cache, key, DictSet(Get(cache, key, EmptyDict), "tag", tag))

\* UpdateCache._get_group_key
_get_group_key(provider, group) == provider \o ":" \o group

\* UpdateCache.get_group_cached_repos
get_group_cached_repos(repo_cache, provider, group) ==
    Get(repo_cache, _get_group_key(provider, group), {})

\* UpdateCache.add_repo_to_group_cache, before its _save
add_repo_to_group_cache(repo_cache, provider, group, repo) ==
    LET key == _get_group_key(provider, group) IN
    DictSet(repo_cache, key, Get(repo_cache, key, {}) \cup {repo})

\* the keys clear_cache(provider, repo) removes (lines 151-152)
KeysOfRepo(cache, provider, repo) ==
    {k \in DOMAIN cache :
        ~StartsWith(k, "_") /\ Contains(k, provider \o ":" \o repo)}

\* the keys clear_cache(provider) removes (lines 157-158): "and" binds
\* tighter than "or"
KeysOfProvider(cache, provider) ==
    {k \in DOMAIN cache :
        \/ ~StartsWith(k, "_") /\ EndsWith(k, ":" \o provider)
        \/ Contains(k, ":" \o provider \o ":")}

\* clear_cache that leaves the group sets in place
clear_cache_keep_groups(cache, repo_cache, provider, repo) ==
    IF provider # "" /\ repo # ""
    THEN [cache |-> DictDel(cache, KeysOfRepo(cache, provider, repo)),
          repo_cache |-> repo_cache]
    ELSE IF provider # ""
    THEN [cache |-> DictDel(cache, KeysOfProvider(cache, provider)),
          repo_cache |-> repo_cache]
    ELSE [cache |-> [k \in {x \in DOMAIN cache : StartsWith(x, "_")} |-> cache[k]],
          repo_cache |-> repo_cache]

\* UpdateCache.clear_cache, before its _save: the pair (_cache, _repo_cache).
\* An argument left out, None, is "" here: the tests are on truthiness.
clear_cache(cache, repo_cache, provider, repo) ==
    IF provider # "" /\ repo # ""
    THEN [cache |-> DictDel(cache, KeysOfRepo(cache, provider, repo)),
          repo_cache |-> repo_cache]
    ELSE IF provider # ""
    THEN [cache |-> DictDel(cache, KeysOfProvider(cache, provider)),
          repo_cache |-> repo_cache]
    ELSE [cache |-> [k \in {x \in DOMAIN cache : StartsWith(x, "_")} |-> cache[k]],
          repo_cache |-> EmptyDict]

\* UpdateCache.clear_group_cache, before its _save
clear_group_cache(repo_cache, provider, group) ==
    IF provider # "" /\ group # ""
    THEN DictDel(repo_cache, {_get_group_key(provider, group)})
    ELSE IF provider # ""
    THEN DictDel(repo_cache,
                 {k \in DOMAIN repo_cache : StartsWith(k, provider \o ":")})
    ELSE EmptyDict

\* ------------------------------------------------------ providers/base.py
\* An HTTP exchange as the adapter sees it: exc (the request raised: timeout,
\* connection error), the status, bad (the body is not JSON) and the decoded
\* body, a JSON object with string values.
RespExc == [exc |-> TRUE, status |-> 0, bad |-> FALSE, body |-> EmptyDict]
RespStatus(n) == [exc |-> FALSE, status |-> n, bad |-> FALSE, body |-> EmptyDict]
RespBadJson == [exc |-> FALSE, status |-> 200, bad |-> TRUE, body |-> EmptyDict]
RespJson(b) == [exc |-> FALSE, status |-> 200, bad |-> FALSE, body |-> b]

\* BaseGitProvider._fetch_json
_fetch_json(resp) ==
    IF resp.exc THEN None
    ELSE IF resp.status = 200
         THEN (IF resp.bad THEN None ELSE Some(resp.body))
         ELSE None

\* bool(x) of an Optional JSON object: None and {} are falsy
Truthy(data) == data # None /\ DOMAIN data[1] # {}

\* BaseGitProvider._fetch_all_pages: per_page (line 209) and the default
\* of max_pages (line 202)
per_page == 100
max_pages == 10

\* A JSON array, written as runs of equal items: <<[d |-> item, n |-> count]>>.
JList(runs) == [list |-> runs]
IsList(body) == DOMAIN body = {"list"}

RECURSIVE ListLen(_)
\* len(data)
ListLen(runs) == IF runs = <<>> THEN 0 ELSE runs[1].n + ListLen(Tail(runs))

\* all_data.extend(data)
Extend(a, b) ==
    IF a # <<>> /\ b # <<>> /\ a[Len(a)].d = b[1].d
    THEN SubSeq(a, 1, Len(a) - 1)
         \o <<[d |-> b[1].d, n |-> a[Len(a)].n + b[1].n]>> \o Tail(b)
    ELSE a \o b

\* bool(data) of a decoded body: [] and {} are falsy
TruthyBody(body) == IF IsList(body) THEN body.list # <<>> ELSE DOMAIN body # {}

\* a loop test that lets one page too many through
MorePages_eleven(page) == page <= max_pages + 1

\* while page <= max_pages (line 213)
MorePages(page) == page <= max_pages

\* One pass of the while loop of _fetch_all_pages once its request is
\* answered by resp (lines 216-239): whether the loop breaks, and all_data.
PagePass(all_data, resp) ==
    IF resp.exc \/ resp.status # 200 \/ resp.bad
    THEN [stop |-> TRUE, all_data |-> all_data]
    ELSE IF ~TruthyBody(resp.body)
         THEN [stop |-> TRUE, all_data |-> all_data]
         ELSE IF IsList(resp.body)
              THEN [stop |-> ListLen(resp.body.list) < per_page,
                    all_data |-> Extend(all_data, resp.body.list)]
              ELSE [stop |-> TRUE, all_data |-> all_data]

\* BaseGitProvider._parse_datetime on the dates of the model
DateUnknown == "unknown"
_parse_datetime(date_str) == IF date_str = "" THEN DateUnknown ELSE date_str

\* CommitInfo.to_push_message
CommitInfo_to_push_message(c) ==
    "[pkg] [" \o c.provider \o "] " \o c.repo \o "\n"
    \o "[branch] " \o c.branch \o "\n"
    \o "[commit] " \o Prefix(c.sha, 7) \o "\n"
    \o "[author] " \o c.author \o "\n"
    \o "[time] " \o c.date \o "\n"
    \o "[message] " \o c.message
    \o (IF c.url # "" THEN "\n[link] " \o c.url ELSE "")

\* ReleaseInfo.to_push_message
ReleaseInfo_to_push_message(r) ==
    "[release] [" \o r.provider \o "] " \o r.repo \o "\n"
    \o "[version] " \o r.tag \o "\n"
    \o (IF r.name # "" /\ r.name # r.tag THEN "[name] " \o r.name \o "\n" ELSE "")
    \o (IF r.author # "" THEN "[publisher] " \o r.author \o "\n" ELSE "")
    \o "[time] " \o r.date \o "\n"
    \o "[notes] " \o Prefix(r.body, 200)
    \o (IF r.url # "" THEN "\n[link] " \o r.url ELSE "")

\* update["info"].to_push_message(): dispatch on the class of info
to_push_message(info) ==
    IF info.cls = "CommitInfo" THEN CommitInfo_to_push_message(info)
    ELSE ReleaseInfo_to_push_message(info)

\* ---------------------------------------------------- providers/github.py
\* a get_default_branch without the fallback: the empty branch is kept when
\* the lookup fails
GitHub_get_default_branch_nofallback(resp) ==
    LET data == _fetch_json(resp) IN
    IF Truthy(data) /\ "default_branch" \in DOMAIN data[1]
    THEN data[1]["default_branch"]
    ELSE ""

\* GitHubProvider.get_default_branch, given the answer to its request
GitHub_get_default_branch(resp) ==
    LET data == _fetch_json(resp) IN
    IF Truthy(data) /\ "default_branch" \in DOMAIN data[1]
    THEN data[1]["default_branch"]
    ELSE "main"

\* get_latest_commit without the test for the "sha" field: a body with no sha
\* gives a CommitInfo with an empty sha
GitHub_get_latest_commit_lenient(repo, branch, resp) ==
    LET data == _fetch_json(resp) IN
    IF ~Truthy(data) THEN None
    ELSE Some([cls |-> "CommitInfo",
               sha |-> Get(data[1], "sha", ""),
               message |-> "",
               author |-> "Unknown",
               date |-> _parse_datetime(""),
               branch |-> branch,
               repo |-> repo,
               provider |-> "GitHub",
               url |-> "https://github.com/" \o repo \o "/commit/"
                       \o Get(data[1], "sha", "")])

\* GitHubProvider.get_latest_commit after the branch is resolved, given the
\* answer to the commits request.  The JSON objects of the model are flat:
\* data.get("commit", {}) and data.get("author", {}) are {}, so message, author
\* and date take the defaults of the code.
GitHub_get_latest_commit(repo, branch, resp) ==
    LET data == _fetch_json(resp) IN
    IF ~Truthy(data) \/ "sha" \notin DOMAIN data[1] THEN None
    ELSE Some([cls |-> "CommitInfo",
               sha |-> data[1]["sha"],
               message |-> "",
               author |-> "Unknown",
               date |-> _parse_datetime(""),
               branch |-> branch,
               repo |-> repo,
               provider |-> "GitHub",
               url |-> "https://github.com/" \o repo \o "/commit/" \o data[1]["sha"]])

\* RepoInfo(...) of one item of the listing (github.py, lines 106-112)
\* An item of a listing that is no JSON object (a string, a number):
\* repo_data.get raises AttributeError on it.
NoObject == [scalar |-> "x"]

GitHub_RepoInfo(repo_data) ==
    [name |-> Get(repo_data, "full_name", ""),
     repo_name |-> Get(repo_data, "name", ""),
     default_branch |-> Get(repo_data, "default_branch", "main"),
     description |-> Get(repo_data, "description", ""),
     url |-> Get(repo_data, "html_url", "")]

\* GitHubProvider.get_group_repos once the listing that is used (of the
\* organisation, else of the user) is fetched: the RepoInfo list, in runs
GitHub_get_group_repos(pages) ==
    [k \in 1..Len(pages) |-> [d |-> GitHub_RepoInfo(pages[k].d), n |-> pages[k].n]]

\* GitHubProvider.get_group_repos raises: an item of the listing has no get
GitHub_get_group_repos_raises(pages) ==
    \E k \in 1..Len(pages) : pages[k].d = NoObject

NoNotes == "no release notes"

\* GitHubProvider.get_latest_release, given the answer to its request
GitHub_get_latest_release(repo, resp) ==
    LET data == _fetch_json(resp) IN
    IF ~Truthy(data) \/ "tag_name" \notin DOMAIN data[1] THEN None
    ELSE Some([cls |-> "ReleaseInfo",
               tag |-> data[1]["tag_name"],
               name |-> Get(data[1], "name", ""),
               body |-> IF Get(data[1], "body", "") # ""
                        THEN Prefix(data[1]["body"], 200) ELSE NoNotes,
               author |-> "Unknown",
               date |-> _parse_datetime(Get(data[1], "published_at", "")),
               repo |-> repo,
               provider |-> "GitHub",
               url |-> Get(data[1], "html_url",
                           "https://github.com/" \o repo \o "/releases/tag/"
                           \o data[1]["tag_name"])])

\* ---------------------------------------------------- providers/gitlab.py
\* bool(data) of what _fetch_json returned: None, {} and [] are falsy
TruthyData(data) == data # None /\ TruthyBody(data[1])

\* data[0] of a JSON array
First(body) == body.list[1].d

\* GitLabProvider.get_default_branch, given the answer to its request
GitLab_get_default_branch(resp) ==
    LET data == _fetch_json(resp) IN
    IF TruthyData(data) /\ "default_branch" \in DOMAIN data[1]
    THEN data[1]["default_branch"]
    ELSE "main"

\* GitLabProvider.get_latest_commit after the branch is resolved, given the
\* answer to its request; the base URL is the default one
GitLab_get_latest_commit(repo, branch, resp) ==
    LET data == _fetch_json(resp) IN
    IF ~TruthyData(data) \/ ~IsList(data[1]) \/ ListLen(data[1].list) = 0 THEN None
    ELSE LET commit == First(data[1]) IN
         Some([cls |-> "CommitInfo",
               sha |-> Get(commit, "id", ""),
               message |-> Get(commit, "message", ""),
               author |-> Get(commit, "author_name", "Unknown"),
               date |-> _parse_datetime(Get(commit, "committed_date", "")),
               branch |-> branch,
               repo |-> repo,
               provider |-> "GitLab",
               url |-> "https://gitlab.com/" \o repo \o "/-/commit/"
                       \o Get(commit, "id", "")])

\* the first release of the array that is no draft, else its first release
\* (gitlab.py, lines 87-95); a draft carries the field "draft"
FirstFormal(runs) ==
    LET formal == {k \in 1..Len(runs) : Get(runs[k].d, "draft", "") = ""} IN
    IF formal = {} THEN runs[1].d
    ELSE runs[CHOOSE k \in formal : \A j \in formal : k <= j].d

\* GitLabProvider.get_latest_release, given the answer to its request
GitLab_get_latest_release(repo, resp) ==
    LET data == _fetch_json(resp) IN
    IF ~TruthyData(data) \/ ~IsList(data[1]) \/ ListLen(data[1].list) = 0 THEN None
    ELSE LET release == FirstFormal(data[1].list) IN
         Some([cls |-> "ReleaseInfo",
               tag |-> Get(release, "tag_name", ""),
               name |-> Get(release, "name", Get(release, "tag_name", "")),
               body |-> IF Get(release, "description", "") # ""
                        THEN Prefix(release["description"], 200) ELSE NoNotes,
               author |-> "Unknown",
               date |-> _parse_datetime(Get(release, "released_at", "")),
               repo |-> repo,
               provider |-> "GitLab",
               url |-> "https://gitlab.com/" \o repo \o "/-/releases/"
                       \o Get(release, "tag_name", "")])

\* ------------------------------------------------------- providers/cnb.py
\* CNBProvider.get_default_branch, given the answer to its request
CNB_get_default_branch(resp) ==
    LET data == _fetch_json(resp) IN
    IF TruthyData(data) /\ "name" \in DOMAIN data[1]
    THEN data[1]["name"]
    ELSE "main"

\* the object the CNB adapter reads: the first item of an array, else the
\* body itself (cnb.py, lines 48-54 and 76-82)
CNB_Object(body) == IF IsList(body) THEN First(body) ELSE body

\* CNBProvider.get_latest_commit after the branch is resolved, given the
\* answer to its request
CNB_get_latest_commit(repo, branch, resp) ==
    LET data == _fetch_json(resp) IN
    IF ~TruthyData(data) THEN None
    ELSE LET commit == CNB_Object(data[1])
             sha == Get(commit, "sha", Get(commit, "id", ""))
         IN Some([cls |-> "CommitInfo",
                  sha |-> sha,
                  message |-> Get(commit, "message", ""),
                  author |-> Get(commit, "author_name", "Unknown"),
                  date |-> _parse_datetime(Get(commit, "committed_date",
                                               Get(commit, "created_at", ""))),
                  branch |-> branch,
                  repo |-> repo,
                  provider |-> "CNB",
                  url |-> "https://cnb.cool/" \o repo \o "/-/commit/" \o sha])

\* CNBProvider.get_latest_release, given the answer to its request
CNB_get_latest_release(repo, resp) ==
    LET data == _fetch_json(resp) IN
    IF ~TruthyData(data) THEN None
    ELSE LET release == CNB_Object(data[1])
             tag == Get(release, "tag_name", Get(release, "tag", ""))
             body == Get(release, "body", Get(release, "description", ""))
         IN Some([cls |-> "ReleaseInfo",
                  tag |-> tag,
                  name |-> Get(release, "name", tag),
                  body |-> IF body # "" THEN Prefix(body, 200) ELSE NoNotes,
                  author |-> "Unknown",
                  date |-> _parse_datetime(Get(release, "published_at",
                                               Get(release, "released_at", ""))),
                  repo |-> repo,
                  provider |-> "CNB",
                  url |-> "https://cnb.cool/" \o repo \o "/-/releases/" \o tag])

\* ------------------------------------------------------- utils/config.py
\* RepoWatchConfig.get_cache_key
get_cache_key(rc) ==
    rc.provider \o ":" \o rc.repo \o ":" \o rc.branch \o ":" \o rc.watch_type

\* a policy that lets the include list overrule the exclude list
should_watch_repo_include_first(gc, repo_name) ==
    IF gc.include_repos # <<>> /\ repo_name \in SeqToSet(gc.include_repos) THEN TRUE
    ELSE repo_name \notin SeqToSet(gc.exclude_repos)

\* GroupWatchConfig.should_watch_repo
should_watch_repo(gc, repo_name) ==
    IF repo_name \in SeqToSet(gc.exclude_repos) THEN FALSE
    ELSE IF gc.include_repos # <<>> /\ repo_name \notin SeqToSet(gc.include_repos)
         THEN FALSE
         ELSE TRUE

\* A push target id as configured: a JSON number, a JSON string, or a JSON
\* array, which Python cannot hash.
IntId(v) == [t |-> "int", v |-> v]
StrId(v) == [t |-> "str", v |-> v]
ListId(v) == [t |-> "list", v |-> v]

\* str(target_id)
Str(id) == id.v

\* every id the configuration names as a group / as a user target
ConfiguredGroups(cfg) ==
    SeqToSet(cfg.push_groups)
    \cup UNION {SeqToSet(cfg.watch_targets[n].groups) : n \in 1..Len(cfg.watch_targets)}
ConfiguredUsers(cfg) ==
    SeqToSet(cfg.push_users)
    \cup UNION {SeqToSet(cfg.watch_targets[n].users) : n \in 1..Len(cfg.watch_targets)}

\* PluginConfig.get_all_push_targets raises: set() and set.update() raise
\* TypeError on an element that cannot be hashed
get_all_push_targets_raises(cfg) ==
    \E id \in ConfiguredGroups(cfg) \cup ConfiguredUsers(cfg) : id.t = "list"

\* PluginConfig.get_all_push_targets: (list(groups), list(users))
get_all_push_targets(cfg) ==
    LET groups == SeqToSet(cfg.push_groups)
                  \cup UNION {SeqToSet(cfg.watch_targets[n].groups) :
                              n \in 1..Len(cfg.watch_targets)}
        users == SeqToSet(cfg.push_users)
                 \cup UNION {SeqToSet(cfg.watch_targets[n].users) :
                             n \in 1..Len(cfg.watch_targets)}
    IN <<SetToSeq(groups), SetToSeq(users)>>

\* UpdateCache.set_group_cached_repos, before its _save
set_group_cached_repos(repo_cache, provider, group, repos) ==
    DictSet(repo_cache, provider \o ":" \o group, repos)

\* a _check_commits that saves the cache again when the sha is the cached one
_check_commits_resave(cache, repo_cache, file, first_push, rc, commit, io) ==
    IF commit = None
    THEN [cache |-> cache, disk |-> file, ret |-> None,
          kind |-> "nodata", key |-> "", val |-> "", io |-> ""]
    ELSE LET c == commit[1]
             key == _get_commit_key(rc.provider, rc.repo, c.branch)
             cached_sha == get_cached_commit_sha(cache, rc.provider, rc.repo, c.branch)
             is_first == is_first_commit_check(cache, rc.provider, rc.repo, c.branch)
             written == SavedCache(set_cached_commit_sha(cache, rc.provider, rc.repo,
                                                         c.branch, c.sha), repo_cache)
         IN [cache |-> written,
             disk |-> save_cache(file, written, io),
             ret |-> IF Some(c.sha) = cached_sha \/ (is_first /\ ~first_push)
                     THEN None ELSE commit,
             kind |-> IF Some(c.sha) = cached_sha THEN "same"
                      ELSE IF is_first THEN "first" ELSE "changed",
             key |-> key, val |-> c.sha, io |-> io]

\* ------------------------------------------------------------- main.py
\* GitPushPlugin._check_commits once get_latest_commit has returned commit;
\* io is the outcome of the file write of _save, if one is made.  The result
\* carries the new _cache, the new file, the returned value and, as history,
\* what the check found (kind), for which cache key and value.
_check_commits(cache, repo_cache, file, first_push, rc, commit, io) ==
    IF commit = None
    THEN [cache |-> cache, disk |-> file, ret |-> None,
          kind |-> "nodata", key |-> "", val |-> "", io |-> ""]
    ELSE LET c == commit[1]
             key == _get_commit_key(rc.provider, rc.repo, c.branch)
             cached_sha == get_cached_commit_sha(cache, rc.provider, rc.repo, c.branch)
             is_first == is_first_commit_check(cache, rc.provider, rc.repo, c.branch)
             written == SavedCache(set_cached_commit_sha(cache, rc.provider, rc.repo,
                                                         c.branch, c.sha), repo_cache)
         IN IF Some(c.sha) = cached_sha
            THEN [cache |-> cache, disk |-> file, ret |-> None,
                  kind |-> "same", key |-> key, val |-> c.sha, io |-> ""]
            ELSE [cache |-> written,
                  disk |-> save_cache(file, written, io),
                  ret |-> IF is_first /\ ~first_push THEN None ELSE commit,
                  kind |-> IF is_first THEN "first" ELSE "changed",
                  key |-> key, val |-> c.sha, io |-> io]

\* GitPushPlugin._check_release once get_latest_release has returned release
_check_release(cache, repo_cache, file, first_push, rc, release, io) ==
    IF release = None
    THEN [cache |-> cache, disk |-> file, ret |-> None,
          kind |-> "nodata", key |-> "", val |-> "", io |-> ""]
    ELSE LET r == release[1]
             key == _get_release_key(rc.provider, rc.repo)
             cached_tag == get_cached_release_tag(cache, rc.provider, rc.repo)
             is_first == is_first_release_check(cache, rc.provider, rc.repo)
             written == SavedCache(set_cached_release_tag(cache, rc.provider, rc.repo,
                                                          r.tag), repo_cache)
         IN IF Some(r.tag) = cached_tag
            THEN [cache |-> cache, disk |-> file, ret |-> None,
                  kind |-> "same", key |-> key, val |-> r.tag, io |-> ""]
            ELSE [cache |-> written,
                  disk |-> save_cache(file, written, io),
                  ret |-> IF is_first /\ ~first_push THEN None ELSE release,
                  kind |-> IF is_first THEN "first" ELSE "changed",
                  key |-> key, val |-> r.tag, io |-> io]

\* self._expanded_repos[cache_key] = repo_config on the dict kept as a list
\* of entries in insertion order; by and info are history: the group entry
\* and the RepoInfo the entry was made from
PutExpanded(expanded, entry) ==
    IF \E n \in 1..Len(expanded) : expanded[n].key = entry.key
    THEN [n \in 1..Len(expanded) |->
             IF expanded[n].key = entry.key THEN entry ELSE expanded[n]]
    ELSE Append(expanded, entry)

RECURSIVE ExpandInto(_, _, _)
\* The for loop over the listing of one group in _expand_group_configs
\* (lines 139-155)
ExpandInto(expanded, gc, repos) ==
    IF repos = <<>> THEN expanded
    ELSE LET repo_info == repos[1].d
             repo_config == [provider |-> gc.provider,
                             repo |-> repo_info.name,
                             branch |-> IF gc.branch # "" THEN gc.branch
                                        ELSE repo_info.default_branch,
                             watch_type |-> gc.watch_type,
                             note |-> gc.note]
         IN IF ~should_watch_repo(gc, repo_info.repo_name)
            THEN ExpandInto(expanded, gc, Tail(repos))
            ELSE ExpandInto(PutExpanded(expanded,
                                        [key |-> get_cache_key(repo_config),
                                         cfg |-> repo_config,
                                         by |-> gc, info |-> repo_info]),
                            gc, Tail(repos))

\* an except that forgets the entries made so far
ExceptListing_reset(expanded) == <<>>

\* except Exception of _expand_group_configs (lines 164-165): the failure is
\* logged and _expanded_repos is left as it is
ExceptListing(expanded) == expanded

\* {r.name for r in repos}
NamesOf(repos) == {repos[k].d.name : k \in 1..Len(repos)}

\* ------------------------------------------------------------ the state
VARIABLES
    config,           \* PluginConfig
    providers,        \* GitPushPlugin.providers: the names of the enabled adapters
    _cache,           \* UpdateCache._cache
    _repo_cache,      \* UpdateCache._repo_cache
    disk,             \* the file cache.json
    _expanded_repos,  \* GitPushPlugin._expanded_repos, in insertion order
    _running,         \* GitPushPlugin._running
    pc,               \* where each coroutine is suspended
    cyc,              \* the locals of each coroutine's _check_and_push call
    listing,          \* the get_group_repos call in progress: its _fetch_all_pages
    hist,             \* history: the record of the latest cycle, if any
    ncycles,          \* history: number of cycles started
    ncrashes,         \* history: number of process restarts
    net               \* the provider's side: the head upstream, answers on their way

vars == <<config, providers, _cache, _repo_cache, disk, _expanded_repos,
          _running, pc, cyc, listing, hist, ncycles, ncrashes, net>>

\* The coroutines: the task of _auto_check_loop and a command handler
\* (git_push_check, git_push_refresh).
Tasks == {"timer", "cmd"}

\* ------------------------------------------------------ the input universe
RepoMain == [provider |-> "github", repo |-> "octo/repo", branch |-> "main",
             watch_type |-> "commits", note |-> ""]
RepoDefault == [provider |-> "github", repo |-> "octo/repo", branch |-> "",
                watch_type |-> "commits", note |-> ""]
RepoRelease == [provider |-> "github", repo |-> "octo/repo", branch |-> "",
                watch_type |-> "releases", note |-> "stable"]
RepoOff == [provider |-> "gitlab", repo |-> "grp/lib", branch |-> "main",
            watch_type |-> "commits", note |-> ""]

\* The watch lists of the model: no entry, one entry of each kind, two
\* entries of one stream (the same entry twice, an explicit and a default
\* branch), entries of different streams, an entry of a provider that is not
\* enabled before and between others.
WatchLists ==
    {<<>>, <<RepoMain>>, <<RepoDefault>>, <<RepoRelease>>,
     <<RepoMain, RepoMain>>, <<RepoMain, RepoDefault>>, <<RepoDefault, RepoMain>>,
     <<RepoMain, RepoRelease>>, <<RepoOff, RepoMain>>,
     <<RepoRelease, RepoOff, RepoDefault>>}

Shas == {"abc1234", "def5678"}
Tags == {"v1.0", "v1.1"}

FailedResponses ==
    {RespExc, RespStatus(404), RespStatus(500), RespBadJson, RespJson(EmptyDict),
     RespJson([message |-> "Not Found"])}

BranchResponses == FailedResponses \cup {RespJson([default_branch |-> "dev"])}
CommitResponses == FailedResponses \cup {RespJson([sha |-> x]) : x \in Shas}
ReleaseResponses == FailedResponses \cup {RespJson([tag_name |-> x]) : x \in Tags}

GroupTarget == IntId("1001")
UserTarget == StrId("42")

\* A cache file an earlier run of the plugin has written.
SeenCache ==
    ("commit:github:octo/repo:main" :> [sha |-> "abc1234"])
    @@ ("release:github:octo/repo" :> [tag |-> "v1.0"])
    @@ ("_group_repos" :> EmptyDict)

InitDisks == {DiskMissing, DiskOf(SeenCache)}

\* -------------------------------------------------------------- helpers
\* The head of the stream octo/repo main upstream, and for each coroutine
\* the answer the provider has given to its request and that is on its way.
NoNet == [upstream |-> "abc1234", served |-> [t \in Tasks |-> None]]

\* no get_group_repos call is in progress; log is history: the groups this
\* run of _expand_group_configs is done with and how each ended
NoListing == [url |-> "", page |-> 0, all_data |-> <<>>, requests |-> <<>>,
              responses |-> <<>>, returned |-> <<>>, log |-> <<>>]

\* the locals of _expand_group_configs (g) and of _check_and_push before the
\* call
IdleCyc ==
    [g |-> 0, all_repos |-> <<>>, i |-> 0, branch |-> "", all_updates |-> <<>>,
     update_count |-> 0, u |-> 0, message |-> "", groups |-> <<>>, users |-> <<>>,
     res |-> <<>>, pushed |-> <<>>, attempts |-> <<>>, cache0 |-> EmptyDict]

\* list(self._expanded_repos.values())
ExpandedValues == [n \in 1..Len(_expanded_repos) |-> _expanded_repos[n].cfg]

\* where a coroutine goes when its _check_and_push returns: the timer loop
\* to its sleep, the command handler to its end
AfterCycle(t) == IF t = "timer" THEN "sleep" ELSE "idle"

\* an exception out of _check_and_push that ends the timer task
AfterRaise_uncaught(t) == IF t = "timer" THEN "stopped" ELSE "idle"

\* where a coroutine goes when its _check_and_push raises: "except Exception"
\* of _auto_check_loop (lines 183-184) logs and the loop goes on; check_update
\* reports the failure (lines 381-383)
AfterRaise(t) == IF t = "timer" THEN "sleep" ELSE "idle"

InCycle(t) == pc[t] \in {"loop", "wait_branch", "wait_fetch", "push", "send"}

\* history: the record of the cycle coroutine t is in
Summary(t, end) ==
    [boot |-> ncrashes, task |-> t, end |-> end, res |-> cyc[t].res,
     pushed |-> cyc[t].pushed, attempts |-> cyc[t].attempts]

\* ------------------------------------------------------------ _check_and_push
\* The call of _check_and_push by coroutine t: lines 197-205.
StartCycle(t) ==
    LET all_repos == config.watch_repos \o ExpandedValues IN
    /\ IF all_repos = <<>>
       THEN /\ pc' = [pc EXCEPT ![t] = AfterCycle(t)]
            /\ cyc' = [cyc EXCEPT ![t] = IdleCyc]
            /\ hist' = <<[boot |-> ncrashes, task |-> t, end |-> "returned",
                          res |-> <<>>, pushed |-> <<>>, attempts |-> <<>>]>>
       ELSE /\ pc' = [pc EXCEPT ![t] = "loop"]
            /\ cyc' = [cyc EXCEPT ![t] =
                          [IdleCyc EXCEPT !.all_repos = all_repos, !.i = 1,
                                          !.cache0 = _cache]]
            /\ hist' = hist
    /\ UNCHANGED <<net, config, providers, listing, _cache, _repo_cache, disk, _expanded_repos,
                   _running, ncrashes>>

\* A call of _check_and_push, counted.
BeginCycle(t) ==
    /\ ncycles < MaxCycles
    /\ ncycles' = ncycles + 1
    /\ StartCycle(t)

\* _auto_check_loop: the sleep ends and, still running, the loop calls
\* _check_and_push (lines 176-180).
Tick ==
    /\ pc["timer"] = "sleep"
    /\ _running
    /\ BeginCycle("timer")

\* The for loop reaches a watch entry whose provider is not enabled
\* (lines 207-211).
SkipEntry(t) ==
    /\ pc[t] = "loop"
    /\ cyc[t].i <= Len(cyc[t].all_repos)
    /\ Lower(cyc[t].all_repos[cyc[t].i].provider) \notin providers
    /\ cyc' = [cyc EXCEPT ![t].i = @ + 1,
                          ![t].res = Append(@, [kind |-> "skip", key |-> "", val |-> "",
                                                io |-> ""])]
    /\ UNCHANGED <<net, config, providers, listing, _cache, _repo_cache, disk, _expanded_repos,
                   _running, pc, hist, ncycles, ncrashes>>

\* a loop that issues the request of an entry and goes on to the next entry
\* without waiting for the check to end
StartFetch_nowait(t) ==
    /\ pc[t] = "loop"
    /\ cyc[t].i <= Len(cyc[t].all_repos)
    /\ LET rc == cyc[t].all_repos[cyc[t].i] IN
       /\ Lower(rc.provider) \in providers
       /\ pc' = [pc EXCEPT ![t] = "wait_fetch"]
       /\ cyc' = [cyc EXCEPT ![t].branch = rc.branch, ![t].i = @ + 1]
    /\ UNCHANGED <<net, config, providers, listing, _cache, _repo_cache, disk, _expanded_repos,
                   _running, hist, ncycles, ncrashes>>

\* The for loop reaches an entry of an enabled provider and the first request
\* of its check is issued: get_default_branch for a commits entry with no
\* branch, else the commits or the release request.
StartFetch(t) ==
    /\ pc[t] = "loop"
    /\ cyc[t].i <= Len(cyc[t].all_repos)
    /\ LET rc == cyc[t].all_repos[cyc[t].i] IN
       /\ Lower(rc.provider) \in providers
       /\ IF rc.watch_type = "commits" /\ rc.branch = ""
          THEN pc' = [pc EXCEPT ![t] = "wait_branch"]
          ELSE pc' = [pc EXCEPT ![t] = "wait_fetch"]
       /\ cyc' = [cyc EXCEPT ![t].branch = rc.branch]
    /\ UNCHANGED <<net, config, providers, listing, _cache, _repo_cache, disk, _expanded_repos,
                   _running, hist, ncycles, ncrashes>>

\* get_default_branch returns and the commits request is issued.
BranchDone(t, resp) ==
    /\ pc[t] = "wait_branch"
    /\ pc' = [pc EXCEPT ![t] = "wait_fetch"]
    /\ cyc' = [cyc EXCEPT ![t].branch = GitHub_get_default_branch(resp)]
    /\ UNCHANGED <<net, config, providers, listing, _cache, _repo_cache, disk, _expanded_repos,
                   _running, hist, ncycles, ncrashes>>

\* The check of the entry as a function of the provider's answer.
CheckEntry(t, resp, io) ==
    LET rc == cyc[t].all_repos[cyc[t].i] IN
    IF rc.watch_type = "commits"
    THEN _check_commits(_cache, _repo_cache, disk, config.first_push, rc,
                        GitHub_get_latest_commit(rc.repo, cyc[t].branch, resp), io)
    ELSE _check_release(_cache, _repo_cache, disk, config.first_push, rc,
                        GitHub_get_latest_release(rc.repo, resp), io)

\* The commits or release request returns; _check_commits / _check_release
\* runs to its end and the loop records the update (lines 216-226).
FetchDone(t, resp, io) ==
    /\ pc[t] = "wait_fetch"
    /\ LET rc == cyc[t].all_repos[cyc[t].i]
           r == CheckEntry(t, resp, io)
       IN /\ resp \in (IF rc.watch_type = "commits" THEN CommitResponses
                       ELSE ReleaseResponses)
          /\ _cache' = r.cache
          /\ disk' = r.disk
          /\ cyc' = [cyc EXCEPT
                ![t].i = @ + 1,
                ![t].res = Append(@, [kind |-> r.kind, key |-> r.key, val |-> r.val,
                                      io |-> r.io]),
                ![t].all_updates =
                    IF r.ret # None
                    THEN Append(@, [info |-> r.ret[1], note |-> rc.note,
                                    key |-> r.key, val |-> r.val])
                    ELSE @,
                ![t].update_count = IF r.ret # None THEN @ + 1 ELSE @]
    /\ pc' = [pc EXCEPT ![t] = "loop"]
    /\ UNCHANGED <<net, config, providers, listing, _repo_cache, _expanded_repos, _running,
                   hist, ncycles, ncrashes>>

\* The for loop over the entries ends and the loop over all_updates begins.
LoopEnd(t) ==
    /\ pc[t] = "loop"
    /\ cyc[t].i > Len(cyc[t].all_repos)
    /\ pc' = [pc EXCEPT ![t] = "push"]
    /\ cyc' = [cyc EXCEPT ![t].u = 1]
    /\ UNCHANGED <<net, config, providers, listing, _cache, _repo_cache, disk, _expanded_repos,
                   _running, hist, ncycles, ncrashes>>

\* The next update is rendered and handed to _send_push (lines 231-235,
\* 295); with no target configured _send_push returns at once.
PushUpdate(t) ==
    /\ pc[t] = "push"
    /\ cyc[t].u <= Len(cyc[t].all_updates)
    /\ LET update == cyc[t].all_updates[cyc[t].u]
           message == to_push_message(update.info)
                      \o (IF update.note # "" THEN "\n[note] " \o update.note ELSE "")
           pushed == Append(cyc[t].pushed, [key |-> update.key, val |-> update.val,
                                            message |-> message])
       IN IF get_all_push_targets_raises(config)
          THEN \* the TypeError leaves _send_push and _check_and_push
               /\ pc' = [pc EXCEPT ![t] = AfterRaise(t)]
               /\ hist' = <<[Summary(t, "raised") EXCEPT !.pushed = pushed,
                                                         !.attempts = <<>>]>>
               /\ cyc' = [cyc EXCEPT ![t] = IdleCyc]
          ELSE LET targets == get_all_push_targets(config)
                   none == targets[1] = <<>> /\ targets[2] = <<>>
               IN /\ cyc' = [cyc EXCEPT
                        ![t].message = message,
                        ![t].groups = targets[1],
                        ![t].users = targets[2],
                        ![t].attempts = <<>>,
                        ![t].pushed = pushed,
                        ![t].u = IF none THEN @ + 1 ELSE @]
                  /\ pc' = [pc EXCEPT ![t] = IF none THEN "push" ELSE "send"]
                  /\ hist' = hist
    /\ UNCHANGED <<net, config, providers, listing, _cache, _repo_cache, disk,
                   _expanded_repos, _running, ncycles, ncrashes>>

\* a loop over the targets that an exception of send_message would end
RestAfter_abort(targets, ok) == IF ok THEN Tail(targets) ELSE <<>>

\* the targets left once send_message has returned (ok) or raised (~ok):
\* the try/except is inside the for loop (lines 297-317)
RestAfter(targets, ok) == Tail(targets)

\* One send_message call of _send_push returns (ok) or raises (~ok): the
\* groups first, then the users (lines 297-317).  After the last target
\* _send_push returns to the loop over all_updates.
SendMessage(t, ok) ==
    /\ pc[t] = "send"
    /\ LET c == cyc[t]
           to_group == c.groups # <<>>
           id == IF to_group THEN Head(c.groups) ELSE Head(c.users)
           groups == IF to_group THEN RestAfter(c.groups, ok) ELSE c.groups
           users == IF to_group THEN c.users ELSE RestAfter(c.users, ok)
           last == groups = <<>> /\ users = <<>>
       IN /\ cyc' = [cyc EXCEPT
                ![t].groups = groups,
                ![t].users = users,
                ![t].attempts = Append(@, [message |-> c.message,
                                           target_type |-> IF to_group THEN "group"
                                                           ELSE "private",
                                           target_id |-> Str(id),
                                           target |-> id,
                                           ok |-> ok]),
                ![t].u = IF last THEN @ + 1 ELSE @]
          /\ pc' = [pc EXCEPT ![t] = IF last THEN "push" ELSE "send"]
    /\ UNCHANGED <<net, config, providers, listing, _cache, _repo_cache, disk, _expanded_repos,
                   _running, hist, ncycles, ncrashes>>

\* Every update is pushed: _check_and_push returns update_count (line 237).
EndCycle(t) ==
    /\ pc[t] = "push"
    /\ cyc[t].u > Len(cyc[t].all_updates)
    /\ pc' = [pc EXCEPT ![t] = AfterCycle(t)]
    /\ hist' = <<Summary(t, "returned")>>
    /\ cyc' = [cyc EXCEPT ![t] = IdleCyc]
    /\ UNCHANGED <<net, config, providers, listing, _cache, _repo_cache, disk, _expanded_repos,
                   _running, ncycles, ncrashes>>

\* The process dies and the host starts the plugin again: initialize()
\* builds a new UpdateCache from the file and, with auto_check, a new timer
\* task (lines 53-72).  No group is configured in the configurations where
\* this action is used, so _expand_group_configs leaves {}.
Restart ==
    /\ ncrashes < MaxCrashes
    /\ config.watch_groups = <<>>
    /\ ncrashes' = ncrashes + 1
    /\ _cache' = UpdateCache_load(disk).cache
    /\ _repo_cache' = UpdateCache_load(disk).repo_cache
    /\ _expanded_repos' = <<>>
    /\ _running' = config.auto_check
    /\ pc' = [t \in Tasks |-> IF t = "timer" /\ config.auto_check THEN "sleep" ELSE "idle"]
    /\ cyc' = [t \in Tasks |-> IdleCyc]
    /\ hist' = IF \E t \in Tasks : InCycle(t)
               THEN <<Summary(CHOOSE t \in Tasks : InCycle(t), "killed")>>
               ELSE hist
    /\ listing' = NoListing
    /\ UNCHANGED <<net, config, providers, disk, ncycles>>

\* ------------------------------------------------------- the specification
\* A configuration of the declared types (utils/config.py, lines 154-176).
TypedConfig(first_push, watch_repos, push_groups, push_users) ==
    [auto_check |-> TRUE, first_push |-> first_push, watch_repos |-> watch_repos,
     watch_groups |-> <<>>, push_groups |-> push_groups,
     push_users |-> push_users, watch_targets |-> <<>>]

\* The state after initialize() (lines 53-72) for a configuration of configs
\* and a cache file of files.
InitWith(configs, files) ==
    /\ config \in configs
    /\ providers = {"github"}
    /\ disk \in files
    /\ _cache = UpdateCache_load(disk).cache
    /\ _repo_cache = UpdateCache_load(disk).repo_cache
    /\ _expanded_repos = <<>>
    /\ _running = config.auto_check
    /\ pc = [t \in Tasks |-> IF t = "timer" /\ config.auto_check THEN "sleep" ELSE "idle"]
    /\ cyc = [t \in Tasks |-> IdleCyc]
    /\ listing = NoListing
    /\ hist = <<>>
    /\ ncycles = 0
    /\ ncrashes = 0
    /\ net = NoNet

Init ==
    InitWith({TypedConfig(fp, wr, <<GroupTarget>>, <<UserTarget>>) :
                 fp \in BOOLEAN, wr \in WatchLists},
             InitDisks)

\* The steps of a check cycle of coroutine t, the file writes ending as ios.
CycleStep(t, ios) ==
    \/ SkipEntry(t)
    \/ StartFetch(t)
    \/ \E resp \in BranchResponses : BranchDone(t, resp)
    \/ \E resp \in CommitResponses \cup ReleaseResponses, io \in ios :
          FetchDone(t, resp, io)
    \/ LoopEnd(t)
    \/ PushUpdate(t)
    \/ \E ok \in BOOLEAN : SendMessage(t, ok)
    \/ EndCycle(t)

\* The timer-driven cycles of a process whose file writes succeed.
Next ==
    \/ Tick
    \/ CycleStep("timer", {"ok"})

Spec == Init /\ [][Next]_vars

\* ---------------------------------------------- writes that fail, restarts
DurableLists == {<<RepoOff, RepoDefault>>, <<RepoRelease>>}

InitDurable ==
    InitWith({TypedConfig(fp, wr, <<GroupTarget>>, <<>>) :
                 fp \in BOOLEAN,
                 wr \in DurableLists},
             InitDisks)

NextDurable ==
    \/ Tick
    \/ CycleStep("timer", WriteOutcomes)
    \/ Restart

SpecDurable == InitDurable /\ [][NextDurable]_vars

\* ------------------------------------------------- the sets of push targets
\* Lists of target ids: none, one, one id twice, a number and the string of
\* the same digits.
GroupLists ==
    {<<>>, <<IntId("1001")>>, <<IntId("1001"), IntId("1001")>>,
     <<IntId("1001"), StrId("1001")>>}
UserLists == {<<>>, <<StrId("42")>>, <<IntId("1001")>>}

\* watch_targets with push targets of their own: one that repeats global
\* targets, one that adds a group
WatchTargetLists ==
    {<<>>,
     <<[groups |-> <<IntId("1001")>>, users |-> <<StrId("42")>>]>>,
     <<[groups |-> <<StrId("2002")>>, users |-> <<>>]>>}

\* An entry that is skipped and a commits entry, first observations are
\* pushed, any set of targets.
InitSend ==
    InitWith({[TypedConfig(TRUE, <<RepoOff, RepoDefault>>, pg, pu)
                  EXCEPT !.watch_targets = wt] :
                 pg \in GroupLists, pu \in UserLists, wt \in WatchTargetLists},
             {DiskMissing})

SpecSend == InitSend /\ [][Next]_vars

\* ------------------------------------------------ the timer loop, for ever
\* _auto_check_loop as in Tick, the cycles not counted.
LoopTick ==
    /\ pc["timer"] = "sleep"
    /\ _running
    /\ StartCycle("timer")
    /\ UNCHANGED ncycles

\* the timer task is suspended at an await: the sleep, a request or a
\* send_message; between two awaits its code runs without a switch
Suspended == pc["timer"] \in {"sleep", "wait_branch", "wait_fetch", "send"}

\* terminate() (lines 186-193), called from another coroutine while the
\* timer task is suspended: _running is cleared and the timer task is
\* cancelled; CancelledError is raised at the await the task is suspended at,
\* passes every "except Exception" and ends the loop (lines 181-182).
Terminate ==
    /\ _running
    /\ Suspended
    /\ _running' = FALSE
    /\ pc' = [pc EXCEPT !["timer"] = "stopped"]
    /\ cyc' = [cyc EXCEPT !["timer"] = IdleCyc]
    /\ hist' = IF InCycle("timer") THEN <<Summary("timer", "cancelled")>> ELSE hist
    /\ UNCHANGED <<net, config, providers, listing, _cache, _repo_cache, disk,
                   _expanded_repos, ncycles, ncrashes>>

\* A skipped entry and a commits entry, or a commits and a release entry;
\* the push targets are a group id or a JSON array where an id should be.
InitLoop ==
    InitWith({TypedConfig(fp, wr, pg, <<>>) :
                 fp \in BOOLEAN,
                 wr \in {<<RepoOff, RepoDefault>>, <<RepoMain, RepoRelease>>},
                 pg \in {<<GroupTarget>>, <<ListId("1001")>>}},
             InitDisks)

NextLoop ==
    \/ LoopTick
    \/ CycleStep("timer", {"ok"})
    \/ Terminate

\* The sleep ends, every request is answered or times out (base.py, line
\* 192: ClientTimeout) and every send_message returns or raises.
SpecLoop ==
    /\ InitLoop
    /\ [][NextLoop]_vars
    /\ WF_vars(LoopTick)
    /\ WF_vars(CycleStep("timer", {"ok"}))

\* ------------------------------------------------- _expand_group_configs
\* Items of a listing: with every field, with only the names, the item that
\* fills the full pages.
RepoA == [name |-> "a", full_name |-> "org/a", default_branch |-> "dev"]
RepoB == [name |-> "b", full_name |-> "org/b"]
RepoF == [name |-> "f", full_name |-> "org/f", default_branch |-> "main"]
RepoNames == {"a", "b", "f", ""}

\* The answers to a page request: failures, bodies that are no list or are
\* empty, a full page, a page one item short, a page of two items, a page
\* whose item is no object.
PageStops ==
    {RespExc, RespStatus(404), RespBadJson, RespJson(EmptyDict),
     RespJson([message |-> "Not Found"]), RespJson(JList(<<>>))}
FullPage == RespJson(JList(<<[d |-> RepoF, n |-> per_page]>>))
ShortPages ==
    {RespJson(JList(<<[d |-> RepoF, n |-> per_page - 1]>>)),
     RespJson(JList(<<[d |-> RepoA, n |-> 1], [d |-> RepoB, n |-> 1]>>)),
     RespJson(JList(<<[d |-> NoObject, n |-> 1]>>))}
PageResponses == PageStops \cup {FullPage} \cup ShortPages

\* the request of page `page` of the listing url
PageRequest(url, page) == [url |-> url, page |-> page, per_page |-> per_page]

\* _fetch_all_pages is called for url and issues its first request
FirstPage(url, returned) ==
    [url |-> url, page |-> 1, all_data |-> <<>>,
     requests |-> <<PageRequest(url, 1)>>, responses |-> <<>>,
     returned |-> returned, log |-> listing.log]

\* the coroutine is in _expand_group_configs
InExpand(t) == pc[t] \in {"expand", "wait_page"}

\* a refresh that keeps the entries of the expansion before it
BeginExpand_keep(t) ==
    /\ \/ t = "timer" /\ pc[t] = "boot"
       \/ t = "cmd" /\ pc[t] = "idle" /\ pc["timer"] \in {"sleep", "idle"}
    /\ pc' = [pc EXCEPT ![t] = "expand"]
    /\ cyc' = [cyc EXCEPT ![t] = [IdleCyc EXCEPT !.g = 1]]
    /\ UNCHANGED <<net, config, providers, listing, _cache, _repo_cache, disk, _running,
                   hist, ncycles, ncrashes, _expanded_repos>>

\* initialize() reaches _expand_group_configs (line 68), or the command
\* git_push_refresh calls it (line 481): the mapping is emptied (line 124).
BeginExpand(t) ==
    /\ \/ t = "timer" /\ pc[t] = "boot"
       \/ t = "cmd" /\ pc[t] = "idle" /\ pc["timer"] \in {"sleep", "idle"}
    /\ _expanded_repos' = <<>>
    /\ pc' = [pc EXCEPT ![t] = "expand"]
    /\ cyc' = [cyc EXCEPT ![t] = [IdleCyc EXCEPT !.g = 1]]
    /\ UNCHANGED <<net, config, providers, listing, _cache, _repo_cache, disk, _running,
                   hist, ncycles, ncrashes>>

\* The loop reaches a group of a provider that is not enabled (lines 127-131).
ExpandSkip(t) ==
    /\ pc[t] = "expand"
    /\ cyc[t].g <= Len(config.watch_groups)
    /\ Lower(config.watch_groups[cyc[t].g].provider) \notin providers
    /\ cyc' = [cyc EXCEPT ![t].g = @ + 1]
    /\ listing' = [listing EXCEPT
          !.log = Append(@, [gc |-> config.watch_groups[cyc[t].g],
                             end |-> "skipped", repos |-> <<>>])]
    /\ UNCHANGED <<net, config, providers, _cache, _repo_cache, disk,
                   _expanded_repos, _running, pc, hist, ncycles, ncrashes>>

\* The loop reaches a group of an enabled provider: get_group_repos asks for
\* the first page of the organisation's repositories (github.py, lines 101-102).
ExpandFetch(t) ==
    /\ pc[t] = "expand"
    /\ cyc[t].g <= Len(config.watch_groups)
    /\ Lower(config.watch_groups[cyc[t].g].provider) \in providers
    /\ listing' = FirstPage("org", <<>>)
    /\ pc' = [pc EXCEPT ![t] = "wait_page"]
    /\ UNCHANGED <<net, config, providers, _cache, _repo_cache, disk, _expanded_repos,
                   _running, cyc, hist, ncycles, ncrashes>>

\* A page request is answered.  The while loop of _fetch_all_pages either
\* asks for the next page or returns all_data; get_group_repos then asks for
\* the user's repositories if the organisation gave none (github.py, lines
\* 115-117), else returns, and _expand_group_configs adds the entries of the
\* group and saves the names of its repositories (lines 139-162).  If the
\* listing holds an item that is no object, get_group_repos raises and the
\* except of _expand_group_configs logs it (lines 164-165).
PageDone(t, resp, io) ==
    /\ pc[t] = "wait_page"
    /\ LET pass == PagePass(listing.all_data, resp)
           call == [url |-> listing.url, data |-> pass.all_data,
                    requests |-> listing.requests,
                    responses |-> Append(listing.responses, resp)]
           gc == config.watch_groups[cyc[t].g]
           repos == GitHub_get_group_repos(pass.all_data)
           repo_cache == set_group_cached_repos(_repo_cache, gc.provider, gc.group,
                                                NamesOf(repos))
           written == SavedCache(_cache, repo_cache)
       IN IF ~pass.stop /\ MorePages(listing.page + 1)
          THEN /\ listing' = [listing EXCEPT
                     !.page = @ + 1,
                     !.all_data = pass.all_data,
                     !.responses = Append(@, resp),
                     !.requests = Append(@, PageRequest(listing.url, listing.page + 1))]
               /\ UNCHANGED <<_cache, _repo_cache, disk, _expanded_repos, pc, cyc>>
          ELSE IF listing.url = "org" /\ pass.all_data = <<>>
               THEN /\ listing' = FirstPage("user", Append(listing.returned, call))
                    /\ UNCHANGED <<_cache, _repo_cache, disk, _expanded_repos, pc, cyc>>
               ELSE /\ pc' = [pc EXCEPT ![t] = "expand"]
                    /\ cyc' = [cyc EXCEPT ![t].g = @ + 1]
                    /\ IF GitHub_get_group_repos_raises(pass.all_data)
                       THEN /\ listing' = [NoListing EXCEPT
                                  !.returned = Append(listing.returned, call),
                                  !.log = Append(listing.log,
                                                 [gc |-> gc, end |-> "raised",
                                                  repos |-> <<>>])]
                            /\ _expanded_repos' = ExceptListing(_expanded_repos)
                            /\ UNCHANGED <<_cache, _repo_cache, disk>>
                       ELSE /\ listing' = [NoListing EXCEPT
                                  !.returned = Append(listing.returned, call),
                                  !.log = Append(listing.log,
                                                 [gc |-> gc, end |-> "listed",
                                                  repos |-> repos])]
                            /\ _expanded_repos' = ExpandInto(_expanded_repos, gc, repos)
                            /\ _repo_cache' = repo_cache
                            /\ _cache' = written
                            /\ disk' = save_cache(disk, written, io)
    /\ UNCHANGED <<net, config, providers, _running, hist, ncycles, ncrashes>>

\* The loop over the groups ends.  initialize() then starts the timer task
\* if auto_check is set (lines 71-72, 167-171); the command reports.
EndExpand(t) ==
    /\ pc[t] = "expand"
    /\ cyc[t].g > Len(config.watch_groups)
    /\ pc' = [pc EXCEPT ![t] = IF t = "timer" /\ config.auto_check THEN "sleep"
                                ELSE "idle"]
    /\ _running' = IF t = "timer" THEN config.auto_check ELSE _running
    /\ cyc' = [cyc EXCEPT ![t] = IdleCyc]
    /\ listing' = NoListing
    /\ UNCHANGED <<net, config, providers, _cache, _repo_cache, disk, _expanded_repos,
                   hist, ncycles, ncrashes>>

\* A watch_groups entry of the organisation "org" on GitHub.
GroupOf(include_repos, exclude_repos, branch) ==
    [provider |-> "github", group |-> "org", watch_type |-> "commits",
     include_repos |-> include_repos, exclude_repos |-> exclude_repos,
     branch |-> branch, note |-> ""]

GroupConfigs ==
    {GroupOf(inc, exc, "") :
        inc \in {<<>>, <<"a">>, <<"a", "b">>},
        exc \in {<<>>, <<"a">>, <<"f">>}}
    \cup {GroupOf(<<>>, <<"f">>, "rel")}

\* a group of a provider that is not enabled
GroupOff == [GroupOf(<<>>, <<>>, "") EXCEPT !.provider = "gitlab"]

\* One group that includes and excludes, one that excludes the filler and
\* names a branch; a group after one that is skipped; the same organisation
\* twice with different lists.
WatchGroupLists ==
    {<<GroupOf(<<"a", "b">>, <<"a">>, "")>>,
     <<GroupOf(<<>>, <<"f">>, "rel")>>,
     <<GroupOff, GroupOf(<<"a">>, <<>>, "")>>,
     <<GroupOf(<<>>, <<"a">>, ""), GroupOf(<<"a", "b">>, <<>>, "")>>}

\* initialize() has loaded the configuration and the cache and is about to
\* expand the groups.
InitExpand ==
    /\ config \in {[TypedConfig(FALSE, <<>>, <<GroupTarget>>, <<>>)
                       EXCEPT !.watch_groups = wg] : wg \in WatchGroupLists}
    /\ providers = {"github"}
    /\ disk = DiskMissing
    /\ _cache = UpdateCache_load(disk).cache
    /\ _repo_cache = UpdateCache_load(disk).repo_cache
    /\ _expanded_repos = <<>>
    /\ _running = FALSE
    /\ pc = [t \in Tasks |-> IF t = "timer" THEN "boot" ELSE "idle"]
    /\ cyc = [t \in Tasks |-> IdleCyc]
    /\ listing = NoListing
    /\ hist = <<>>
    /\ ncycles = 0
    /\ ncrashes = 0
    /\ net = NoNet

ExpandStep(t) ==
    \/ BeginExpand(t)
    \/ ExpandSkip(t)
    \/ ExpandFetch(t)
    \/ \E resp \in PageResponses : PageDone(t, resp, "ok")
    \/ EndExpand(t)

NextExpand == \E t \in Tasks : ExpandStep(t)

\* Every request carries a total timeout of 30 seconds (base.py, line 221):
\* a request that is out is answered or raises.
SpecExpand ==
    /\ InitExpand
    /\ [][NextExpand]_vars
    /\ WF_vars(\E t \in Tasks, resp \in PageResponses : PageDone(t, resp, "ok"))

\* ------------------------------------------- an upstream that has moved on
\* The cache file holds abc1234 / v1.0 and upstream is at def5678 / v1.1 and
\* stays there: a request fails or returns the new value.
MovedCommits == FailedResponses \cup {RespJson([sha |-> "def5678"])}
MovedReleases == FailedResponses \cup {RespJson([tag_name |-> "v1.1"])}

\* The steps of a timer-driven cycle against that upstream.
RetryStep ==
    \/ SkipEntry("timer")
    \/ StartFetch("timer")
    \/ \E resp \in BranchResponses : BranchDone("timer", resp)
    \/ \E resp \in MovedCommits \cup MovedReleases : FetchDone("timer", resp, "ok")
    \/ LoopEnd("timer")
    \/ PushUpdate("timer")
    \/ \E ok \in BOOLEAN : SendMessage("timer", ok)
    \/ EndCycle("timer")

\* Two streams in one cycle, or a skipped entry and a default branch; the
\* push targets are a group id or a JSON array where an id should be.
InitRetry ==
    InitWith({TypedConfig(fp, wr, pg, <<>>) :
                 fp \in BOOLEAN,
                 wr \in {<<RepoMain, RepoRelease>>, <<RepoOff, RepoDefault>>},
                 pg \in {<<GroupTarget>>, <<ListId("1001")>>}},
             {DiskOf(SeenCache)})

NextRetry == LoopTick \/ RetryStep

\* The timer keeps running: the sleep ends, requests are answered or time
\* out, send_message returns or raises.
SpecRetry ==
    /\ InitRetry
    /\ [][NextRetry]_vars
    /\ WF_vars(LoopTick)
    /\ WF_vars(RetryStep)

\* ------------------------------------------------- the UpdateCache, alone
\* The streams and groups the operations are called with: two repositories
\* of one provider, the one's name a prefix of the other's, and a stream of
\* another provider whose branch is named like the first provider.
StoreCommits ==
    {[provider |-> "github", repo |-> "octo/repo", branch |-> "main"],
     [provider |-> "github", repo |-> "octo/repo2", branch |-> "main"],
     [provider |-> "gitlab", repo |-> "grp/lib", branch |-> "github"]}
StoreReleases == {[provider |-> "github", repo |-> "octo/repo"]}
StoreProviders == {"github", "gitlab"}
StoreRepos == {"octo/repo", "octo/repo2", "grp/lib"}
StoreGroupRepos == {"org/a"}
StoreWrites == {"ok", "noopen"}

\* One call of a mutating operation of UpdateCache: the new (_cache,
\* _repo_cache) is given by after, then _save rewrites "_group_repos" and
\* the file (lines 57-63); hist records the call.
StoreOp(op, after, io) ==
    LET written == SavedCache(after.cache, after.repo_cache) IN
    /\ _cache' = written
    /\ _repo_cache' = after.repo_cache
    /\ disk' = save_cache(disk, written, io)
    /\ hist' = <<[op |-> op, io |-> io]>>
    /\ UNCHANGED <<net, config, providers, _expanded_repos, _running, pc, cyc, listing,
                   ncycles, ncrashes>>

SetCommit(s, sha, io) ==
    StoreOp("set_cached_commit_sha",
            [cache |-> set_cached_commit_sha(_cache, s.provider, s.repo, s.branch, sha),
             repo_cache |-> _repo_cache], io)

SetRelease(s, tag, io) ==
    StoreOp("set_cached_release_tag",
            [cache |-> set_cached_release_tag(_cache, s.provider, s.repo, tag),
             repo_cache |-> _repo_cache], io)

SetGroupRepos(repos, io) ==
    StoreOp("set_group_cached_repos",
            [cache |-> _cache,
             repo_cache |-> set_group_cached_repos(_repo_cache, "github", "org", repos)],
            io)

AddRepoToGroup(repo, io) ==
    StoreOp("add_repo_to_group_cache",
            [cache |-> _cache,
             repo_cache |-> add_repo_to_group_cache(_repo_cache, "github", "org", repo)],
            io)

\* clear_cache(): everything
ClearAll(io) == StoreOp("clear_cache()", clear_cache(_cache, _repo_cache, "", ""), io)

\* clear_cache(provider=P)
ClearProvider(provider, io) ==
    StoreOp("clear_cache(provider)", clear_cache(_cache, _repo_cache, provider, ""), io)

\* clear_cache(provider=P, repo=R)
ClearRepo(provider, repo, io) ==
    StoreOp("clear_cache(provider, repo)",
            clear_cache(_cache, _repo_cache, provider, repo), io)

ClearGroup(provider, group, io) ==
    StoreOp("clear_group_cache",
            [cache |-> _cache,
             repo_cache |-> clear_group_cache(_repo_cache, provider, group)], io)

\* An UpdateCache built on no file, on a file of an earlier run, on a file
\* that is no JSON.
InitStore ==
    InitWith({TypedConfig(FALSE, <<>>, <<>>, <<>>)}, InitDisks \cup {DiskCorrupt})

NextStore ==
    \E io \in StoreWrites :
        \/ \E s \in StoreCommits : SetCommit(s, "def5678", io)
        \/ \E s \in StoreReleases : SetRelease(s, "v1.1", io)
        \/ \E repos \in SUBSET StoreGroupRepos : SetGroupRepos(repos, io)
        \/ \E repo \in StoreGroupRepos : AddRepoToGroup(repo, io)
        \/ ClearAll(io)
        \/ \E p \in StoreProviders : ClearProvider(p, io)
        \/ \E p \in StoreProviders, r \in StoreRepos : ClearRepo(p, r, io)
        \/ \E p \in {"", "github"}, g \in {"", "org"} : ClearGroup(p, g, io)

SpecStore == InitStore /\ [][NextStore]_vars

\* --------------------------------------------- entries that differ in branch
RepoDev == [RepoMain EXCEPT !.branch = "dev"]
RepoReleaseDev == [RepoRelease EXCEPT !.branch = "dev"]

\* Pairs of entries of one repository: two explicit branches, an explicit
\* and the default branch, two release entries with different branches, a
\* commits and a release entry; and an entry after one that is skipped.
BranchLists ==
    {<<RepoMain, RepoDev>>, <<RepoMain, RepoDefault>>, <<RepoRelease, RepoReleaseDev>>,
     <<RepoDefault, RepoRelease>>, <<RepoOff, RepoMain>>}

InitBranches ==
    InitWith({TypedConfig(fp, wr, <<GroupTarget>>, <<>>) :
                 fp \in BOOLEAN, wr \in BranchLists},
             InitDisks)

SpecBranches == InitBranches /\ [][Next]_vars

\* ------------------------------------- commands while the timer task runs
\* The command git_push_check calls _check_and_push (lines 370-376).  The
\* handler is a coroutine of its own on the event loop of the timer task and
\* nothing in the plugin makes it wait for a cycle that is suspended at a
\* request.
CheckNow ==
    /\ pc["cmd"] = "idle"
    /\ BeginCycle("cmd")

\* The command git_push_refresh calls _expand_group_configs (lines 475-481),
\* whatever the timer task is doing: the mapping is emptied (line 124).
RefreshNow ==
    /\ pc["cmd"] = "idle"
    /\ _expanded_repos' = <<>>
    /\ pc' = [pc EXCEPT !["cmd"] = "expand"]
    /\ cyc' = [cyc EXCEPT !["cmd"] = [IdleCyc EXCEPT !.g = 1]]
    /\ UNCHANGED <<net, config, providers, listing, _cache, _repo_cache, disk, _running,
                   hist, ncycles, ncrashes>>

\* the answers to a page request: a failure, a page of one repository
OverlapPages == {RespExc, RespJson(JList(<<[d |-> RepoA, n |-> 1]>>))}

\* initialize() is over, its listing of the group has failed, no cache file
\* exists.  An entry that is skipped and a commits entry are watched, a
\* group that is skipped and a group that excludes the repository "a".
InitOverlap ==
    InitWith({[TypedConfig(TRUE, <<RepoOff, RepoDefault>>, <<GroupTarget>>, <<>>)
                  EXCEPT !.watch_groups = <<GroupOff, GroupOf(<<>>, <<"a">>, "")>>]},
             {DiskMissing})

NextOverlap ==
    \/ Tick
    \/ CycleStep("timer", {"ok"})
    \/ CheckNow
    \/ CycleStep("cmd", {"ok"})
    \/ RefreshNow
    \/ ExpandSkip("cmd")
    \/ ExpandFetch("cmd")
    \/ \E resp \in OverlapPages : PageDone("cmd", resp, "ok")
    \/ EndExpand("cmd")

SpecOverlap == InitOverlap /\ [][NextOverlap]_vars

\* --------------------------------------------- the adapters, call by call
Adapters == {"github", "gitlab", "cnb"}

\* Answers to a commits or releases request: the failures, an empty array,
\* objects and arrays of objects with and without the identifying field,
\* an array whose first release is a draft.
ObjectBodies ==
    {[sha |-> "abc1234"], [id |-> "abc1234"], [tag_name |-> "v1.0"], [tag |-> "v1.0"],
     [committed_date |-> "2024-05-01"], [description |-> "notes"]}
ArrayBodies ==
    {JList(<<>>)}
    \cup {JList(<<[d |-> b, n |-> 1]>>) : b \in ObjectBodies}
    \cup {JList(<<[d |-> [draft |-> "true", tag_name |-> "v1.1"], n |-> 1],
                  [d |-> [tag_name |-> "v1.0"], n |-> 1]>>)}
AdapterResponses ==
    FailedResponses \cup {RespJson(b) : b \in ObjectBodies \cup ArrayBodies}

\* answers to the request of get_default_branch
DefaultBranchResponses ==
    {RespExc, RespJson([default_branch |-> "dev"]), RespJson([name |-> "dev"])}

\* get_default_branch of an adapter
get_default_branch(adapter, resp) ==
    CASE adapter = "github" -> GitHub_get_default_branch(resp)
      [] adapter = "gitlab" -> GitLab_get_default_branch(resp)
      [] adapter = "cnb" -> CNB_get_default_branch(resp)

\* get_latest_commit of an adapter: the branch is resolved if none is given
\* (bresp answers that request), then the commits request is answered by resp
get_latest_commit(adapter, repo, branch, bresp, resp) ==
    LET b == IF branch = "" THEN get_default_branch(adapter, bresp) ELSE branch IN
    CASE adapter = "github" -> GitHub_get_latest_commit(repo, b, resp)
      [] adapter = "gitlab" -> GitLab_get_latest_commit(repo, b, resp)
      [] adapter = "cnb" -> CNB_get_latest_commit(repo, b, resp)

\* get_latest_release of an adapter
get_latest_release(adapter, repo, resp) ==
    CASE adapter = "github" -> GitHub_get_latest_release(repo, resp)
      [] adapter = "gitlab" -> GitLab_get_latest_release(repo, resp)
      [] adapter = "cnb" -> CNB_get_latest_release(repo, resp)

\* A call of get_latest_commit of an adapter for a branch: net holds the
\* answers the provider gives to the default-branch request and to the
\* commits request; history keeps the call, the answer and what was returned.
GetLatestCommit(adapter, branch) ==
    /\ hist' = <<[op |-> "get_latest_commit", adapter |-> adapter,
                  resp |-> net.data,
                  ret |-> get_latest_commit(adapter, "octo/repo", branch,
                                            net.branch, net.data)]>>
    /\ UNCHANGED <<net, config, providers, _cache, _repo_cache, disk, _expanded_repos,
                   _running, pc, cyc, listing, ncycles, ncrashes>>

\* A call of get_latest_release of an adapter.
GetLatestRelease(adapter) ==
    /\ hist' = <<[op |-> "get_latest_release", adapter |-> adapter,
                  resp |-> net.data,
                  ret |-> get_latest_release(adapter, "octo/repo", net.data)]>>
    /\ UNCHANGED <<net, config, providers, _cache, _repo_cache, disk, _expanded_repos,
                   _running, pc, cyc, listing, ncycles, ncrashes>>

\* No cycle runs; the provider's answers are any of the above.
InitAdapters ==
    /\ config = TypedConfig(FALSE, <<>>, <<>>, <<>>)
    /\ providers = {"github"}
    /\ disk = DiskMissing
    /\ _cache = UpdateCache_load(disk).cache
    /\ _repo_cache = UpdateCache_load(disk).repo_cache
    /\ _expanded_repos = <<>>
    /\ _running = config.auto_check
    /\ pc = [t \in Tasks |-> IF t = "timer" THEN "sleep" ELSE "idle"]
    /\ cyc = [t \in Tasks |-> IdleCyc]
    /\ listing = NoListing
    /\ hist = <<>>
    /\ ncycles = 0
    /\ ncrashes = 0
    /\ net \in [branch : DefaultBranchResponses, data : AdapterResponses]

NextAdapters ==
    \E adapter \in Adapters :
        \/ \E branch \in {"", "main"} : GetLatestCommit(adapter, branch)
        \/ GetLatestRelease(adapter)

SpecAdapters == InitAdapters /\ [][NextAdapters]_vars

\* ------------------------- requests of two cycles and a head that moves on
\* The branch main of octo/repo is at abc1234 and moves on to def5678.
Advance ==
    /\ net.upstream = "abc1234"
    /\ net' = [net EXCEPT !.upstream = "def5678"]
    /\ UNCHANGED <<config, providers, _cache, _repo_cache, disk, _expanded_repos,
                   _running, pc, cyc, listing, hist, ncycles, ncrashes>>

\* The provider answers the commits request of coroutine t with the head it
\* has at that moment, or the request fails; the answer is on its way.
Serve(t, ok) ==
    /\ pc[t] = "wait_fetch"
    /\ net.served[t] = None
    /\ net' = [net EXCEPT !.served[t] =
                  Some(IF ok THEN RespJson([sha |-> net.upstream]) ELSE RespExc)]
    /\ UNCHANGED <<config, providers, _cache, _repo_cache, disk, _expanded_repos,
                   _running, pc, cyc, listing, hist, ncycles, ncrashes>>

\* The answer reaches coroutine t: _fetch_json returns and _check_commits
\* runs to its end.
Deliver(t) ==
    /\ net.served[t] # None
    /\ FetchDone(t, net.served[t][1], "ok")

\* The answer coroutine t has consumed is dropped.
Forget(t) ==
    /\ pc[t] # "wait_fetch"
    /\ net.served[t] # None
    /\ net' = [net EXCEPT !.served[t] = None]
    /\ UNCHANGED <<config, providers, _cache, _repo_cache, disk, _expanded_repos,
                   _running, pc, cyc, listing, hist, ncycles, ncrashes>>

\* The steps of a check cycle of coroutine t over entries of an enabled
\* provider with a branch, its requests answered by the provider above.
RaceStep(t) ==
    \/ net.served[t] = None /\ StartFetch(t)
    \/ \E ok \in BOOLEAN : Serve(t, ok)
    \/ Deliver(t)
    \/ Forget(t)
    \/ LoopEnd(t)
    \/ PushUpdate(t)
    \/ \E ok \in BOOLEAN : SendMessage(t, ok)
    \/ EndCycle(t)

\* One commits entry, the cache file of an earlier run that saw abc1234.
InitRace ==
    InitWith({TypedConfig(FALSE, <<RepoMain>>, <<GroupTarget>>, <<>>)},
             {DiskOf(SeenCache)})

NextRace ==
    \/ LoopTick
    \/ CheckNow
    \/ Advance
    \/ RaceStep("timer")
    \/ RaceStep("cmd")

SpecRace == InitRace /\ [][NextRace]_vars

\* ------------------------------------ a refresh while the timer task runs
\* Two groups of the organisation org, one watching its repository a and
\* one its repository b; every listing succeeds and returns a and b.
GroupA == GroupOf(<<"a">>, <<>>, "")
GroupB == GroupOf(<<"b">>, <<>>, "")
RefreshPage == RespJson(JList(<<[d |-> RepoA, n |-> 1], [d |-> RepoB, n |-> 1]>>))

\* _expanded_repos after an _expand_group_configs that ran to its end
FullExpansion ==
    ExpandInto(ExpandInto(<<>>, GroupA, GitHub_get_group_repos(RefreshPage.body.list)),
               GroupB, GitHub_get_group_repos(RefreshPage.body.list))

\* initialize() is over: the groups are expanded, the names of the listed
\* repositories are saved and the timer task sleeps.
InitRefresh ==
    /\ config = [TypedConfig(FALSE, <<RepoOff, RepoDefault>>, <<GroupTarget>>, <<>>)
                    EXCEPT !.watch_groups = <<GroupA, GroupB>>]
    /\ providers = {"github"}
    /\ _repo_cache = set_group_cached_repos(EmptyDict, "github", "org",
                                            {"org/a", "org/b"})
    /\ _cache = SavedCache(EmptyDict, _repo_cache)
    /\ disk = DiskOf(_cache)
    /\ _expanded_repos = FullExpansion
    /\ _running = TRUE
    /\ pc = [t \in Tasks |-> IF t = "timer" THEN "sleep" ELSE "idle"]
    /\ cyc = [t \in Tasks |-> IdleCyc]
    /\ listing = NoListing
    /\ hist = <<>>
    /\ ncycles = 0
    /\ ncrashes = 0
    /\ net = NoNet

\* The sleep of the timer task ends while the command, if there is one, is
\* suspended at a request: between two awaits a coroutine is not switched.
NextRefresh ==
    \/ pc["cmd"] # "expand" /\ Tick
    \/ SkipEntry("timer")
    \/ StartFetch("timer")
    \/ BranchDone("timer", RespExc)
    \/ \E sha \in Shas : FetchDone("timer", RespJson([sha |-> sha]), "ok")
    \/ LoopEnd("timer")
    \/ PushUpdate("timer")
    \/ \E ok \in BOOLEAN : SendMessage("timer", ok)
    \/ EndCycle("timer")
    \/ RefreshNow
    \/ ExpandFetch("cmd")
    \/ PageDone("cmd", RefreshPage, "ok")
    \/ EndExpand("cmd")

SpecRefresh == InitRefresh /\ [][NextRefresh]_vars

\* ------------------------------------------------------------- properties
\* The timer's cycle has made every check and every push and is about to
\* return: cyc holds its whole record.
CycleOver == pc["timer"] = "push" /\ cyc["timer"].u > Len(cyc["timer"].all_updates)

\* The run before this one ended normally in the same process.
SecondRun ==
    CycleOver /\ hist # <<>> /\ hist[1].end = "returned" /\ hist[1].boot = ncrashes

\* the value recorded under key k, if any
CachedValue(cache, k) ==
    IF k \notin DOMAIN cache THEN None
    ELSE IF "sha" \in DOMAIN cache[k] THEN Some(cache[k]["sha"])
    ELSE IF "tag" \in DOMAIN cache[k] THEN Some(cache[k]["tag"])
    ELSE None

\* the positions of r that wrote the cache
Writes(r) == {i \in 1..Len(r) : r[i].kind \in {"first", "changed"}}

\* entry by entry, two runs fetched the same sha/tag (or both none)
SameValues(r1, r2) ==
    Len(r1) = Len(r2) /\ \A i \in 1..Len(r1) : r1[i].val = r2[i].val

\* entry by entry, two runs checked the same stream
SameStreams(r1, r2) ==
    Len(r1) = Len(r2) /\ \A i \in 1..Len(r1) : r1[i].key = r2[i].key

\* all fetches of one stream in a run returned one value
OneValuePerStream(r) ==
    \A i, j \in 1..Len(r) : r[i].key = r[j].key => r[i].val = r[j].val

\* the cycle pushed nothing and returns 0
Silent ==
    /\ cyc["timer"].pushed = <<>>
    /\ cyc["timer"].all_updates = <<>>
    /\ cyc["timer"].update_count = 0
    /\ cyc["timer"].attempts = <<>>

\* C1 as stated: a second run in succession whose fetches return the same
\* sha/tag as those of the first run emits no notification and returns 0.
C1_SameValuesSilent ==
    (SecondRun /\ SameValues(hist[1].res, cyc["timer"].res)) => Silent

\* C1, amended: a second run in succession whose fetches return, entry by
\* entry, the same sha/tag for the same stream (the same resolved branch) as
\* those of the first run, the first run having fetched one value per stream,
\* emits no notification, returns 0 and writes nothing.
C1_Idempotent ==
    (/\ SecondRun
     /\ SameValues(hist[1].res, cyc["timer"].res)
     /\ SameStreams(hist[1].res, cyc["timer"].res)
     /\ OneValuePerStream(hist[1].res))
    => /\ Silent
       /\ Writes(cyc["timer"].res) = {}
       /\ _cache = cyc["timer"].cache0

\* A second run after a first run that wrote and notified.
C1_Witness ==
    /\ SecondRun
    /\ SameValues(hist[1].res, cyc["timer"].res)
    /\ SameStreams(hist[1].res, cyc["timer"].res)
    /\ OneValuePerStream(hist[1].res)
    /\ Len(hist[1].res) = 2
    /\ Writes(hist[1].res) # {}
    /\ hist[1].pushed # <<>>
    /\ \E i \in 1..Len(cyc["timer"].res) : cyc["timer"].res[i].kind = "same"
    /\ Silent

\* the streams the cache held a value for when the cycle began
CachedStreams == DOMAIN cyc["timer"].cache0 \ {"_group_repos"}

\* the positions of the cycle's checks that fetched a value of stream k
FetchesOf(k) == {i \in 1..Len(cyc["timer"].res) : cyc["timer"].res[i].key = k}

\* stream k had a cached value and every fetch of it in this cycle returned
\* one value w that differs from it
StreamChanged(k) ==
    /\ k \in CachedStreams
    /\ CachedValue(cyc["timer"].cache0, k) # None
    /\ FetchesOf(k) # {}
    /\ \A i, j \in FetchesOf(k) : cyc["timer"].res[i].val = cyc["timer"].res[j].val
    /\ \A i \in FetchesOf(k) :
          Some(cyc["timer"].res[i].val) # CachedValue(cyc["timer"].cache0, k)

\* C3: a stream with a cached value v whose fetches in a cycle return w # v
\* gets exactly one notification and exactly one cache write in that cycle,
\* and the cache holds w when the cycle ends, whatever the send_message calls
\* did and however many watch entries name the stream.
C3_OneNotificationOneWrite ==
    \A k \in CachedStreams :
        (CycleOver /\ StreamChanged(k)) =>
            /\ Cardinality({n \in 1..Len(cyc["timer"].pushed) :
                               cyc["timer"].pushed[n].key = k}) = 1
            /\ Cardinality(FetchesOf(k) \cap Writes(cyc["timer"].res)) = 1
            /\ \A i \in FetchesOf(k) :
                  CachedValue(_cache, k) = Some(cyc["timer"].res[i].val)

\* Two watch entries of one stream fetched the changed value and every
\* send_message of the one notification failed.
C3_Witness ==
    /\ CycleOver
    /\ \E k \in CachedStreams :
          /\ StreamChanged(k)
          /\ Cardinality(FetchesOf(k)) = 2
    /\ Len(cyc["timer"].pushed) = 1
    /\ Len(cyc["timer"].attempts) = 2
    /\ \A n \in 1..Len(cyc["timer"].attempts) : ~cyc["timer"].attempts[n].ok

\* the configuration of the example: one commits entry, first_push disabled
C7_Example ==
    /\ ~config.first_push
    /\ config.watch_repos = <<[provider |-> "github", repo |-> "octo/repo",
                               branch |-> "main", watch_type |-> "commits",
                               note |-> ""]>>
    /\ config.watch_groups = <<>>

\* C7: with one commits entry (github, octo/repo, main), first_push disabled
\* and an empty cache, the cycle that fetches abc1234 sends nothing and leaves
\* "commit:github:octo/repo:main" -> {"sha": "abc1234"}; the next cycle, which
\* fetches def5678, sends exactly one message, whose text contains the repo,
\* the branch and the first 7 characters of the sha, and leaves def5678.
C7_ExampleRuns ==
    /\ (/\ CycleOver /\ C7_Example
        /\ cyc["timer"].cache0 = EmptyDict
        /\ cyc["timer"].res[1].val = "abc1234")
       => /\ Silent
          /\ "commit:github:octo/repo:main" \in DOMAIN _cache
          /\ _cache["commit:github:octo/repo:main"] = [sha |-> "abc1234"]
    /\ (/\ SecondRun /\ C7_Example
        /\ hist[1].res[1].kind = "first"
        /\ hist[1].res[1].val = "abc1234"
        /\ cyc["timer"].res[1].val = "def5678")
       => /\ Len(cyc["timer"].pushed) = 1
          /\ Contains(cyc["timer"].pushed[1].message, "octo/repo")
          /\ Contains(cyc["timer"].pushed[1].message, "main")
          /\ Contains(cyc["timer"].pushed[1].message, SubSeq("def5678", 1, 7))
          /\ \A n \in 1..Len(cyc["timer"].attempts) :
                cyc["timer"].attempts[n].message = cyc["timer"].pushed[1].message
          /\ cyc["timer"].update_count = 1
          /\ "commit:github:octo/repo:main" \in DOMAIN _cache
          /\ _cache["commit:github:octo/repo:main"] = [sha |-> "def5678"]

\* The second cycle of the example has sent its message.
C7_Witness ==
    /\ SecondRun /\ C7_Example
    /\ hist[1].res[1].kind = "first"
    /\ hist[1].res[1].val = "abc1234"
    /\ hist[1].pushed = <<>>
    /\ cyc["timer"].res[1].val = "def5678"
    /\ Len(cyc["timer"].attempts) = 2

\* a fetch that failed or returned no data: the check that FetchDone appended
FetchFailed(resp) ==
    /\ resp \in FailedResponses
    /\ \E io \in WriteOutcomes : FetchDone("timer", resp, io)

\* C10: a check whose fetch fails or returns no data (exception, non-200
\* status, malformed or empty body, missing field) leaves the cache and its
\* file unchanged, adds no update, raises nothing (the loop goes on to the
\* next entry), and a cycle that ends has checked every entry.
C10_FailedFetchIsNoData ==
    /\ [](CycleOver => Len(cyc["timer"].res) = Len(cyc["timer"].all_repos))
    /\ [][\A resp \in FailedResponses :
             FetchFailed(resp) =>
                /\ _cache' = _cache
                /\ disk' = disk
                /\ cyc'["timer"].all_updates = cyc["timer"].all_updates
                /\ cyc'["timer"].update_count = cyc["timer"].update_count
                /\ cyc'["timer"].res[Len(cyc'["timer"].res)].kind = "nodata"
                /\ cyc'["timer"].i = cyc["timer"].i + 1
                /\ pc'["timer"] = "loop"]_vars

\* After a failed fetch of the first entry the second entry was checked and
\* its update pushed.
C10_Witness ==
    /\ CycleOver
    /\ Len(cyc["timer"].res) = 2
    /\ cyc["timer"].res[1].kind = "nodata"
    /\ cyc["timer"].res[2].kind = "changed"
    /\ Len(cyc["timer"].pushed) = 1
    /\ _cache # cyc["timer"].cache0

\* the check the timer's cycle made last
LastCheck == cyc["timer"].res[Len(cyc["timer"].res)]

\* This step is a check of the timer's cycle whose fetch returned a value of
\* a stream the cache holds no record for, first_push being disabled.
FirstObservationStep ==
    /\ pc["timer"] = "wait_fetch"
    /\ pc'["timer"] = "loop"
    /\ ~config.first_push
    /\ LastCheck'.kind \notin {"nodata", "skip"}
    /\ LastCheck'.key \notin DOMAIN _cache

\* the record the check leaves under its key
RecordOf(check) ==
    IF check.key = _get_release_key("github", "octo/repo")
    THEN [tag |-> check.val] ELSE [sha |-> check.val]

\* cache maps the key of the check to exactly the fetched value
Holds(cache, check) ==
    check.key \in DOMAIN cache /\ cache[check.key] = RecordOf(check)

\* C2 as stated: with first_push disabled, a successful fetch of a stream
\* the cache has no record of adds no notification and leaves the cache, in
\* memory and in the file, holding exactly the fetched sha/tag for the key.
C2_FirstObservationPersisted ==
    [][FirstObservationStep =>
          /\ cyc'["timer"].all_updates = cyc["timer"].all_updates
          /\ cyc'["timer"].update_count = cyc["timer"].update_count
          /\ Holds(_cache', LastCheck')
          /\ disk'.state = "ok"
          /\ Holds(disk'.data, LastCheck')]_vars

\* C2, amended: with first_push disabled, a successful fetch of a stream the
\* cache has no record of adds no notification and leaves the in-memory
\* cache holding exactly the fetched sha/tag for the key; the file holds it
\* too when the write of save_cache succeeds, and only then is it certain to.
C2_FirstObservationCached ==
    [][FirstObservationStep =>
          /\ cyc'["timer"].all_updates = cyc["timer"].all_updates
          /\ cyc'["timer"].update_count = cyc["timer"].update_count
          /\ Holds(_cache', LastCheck')
          /\ (LastCheck'.io = "ok" =>
                 disk'.state = "ok" /\ Holds(disk'.data, LastCheck'))
          /\ (LastCheck'.io = "noopen" => disk' = disk)
          /\ (LastCheck'.io = "partial" => disk' = DiskCorrupt)]_vars

\* A first observation was recorded silently, in memory and in the file.
C2_Witness ==
    /\ pc["timer"] = "loop"
    /\ ~config.first_push
    /\ cyc["timer"].res # <<>>
    /\ LastCheck.kind = "first"
    /\ LastCheck.io = "ok"
    /\ cyc["timer"].all_updates = <<>>
    /\ Holds(_cache, LastCheck)
    /\ disk.state = "ok" /\ Holds(disk.data, LastCheck)

\* the update _send_push is delivering
Sending == cyc["timer"].pushed[Len(cyc["timer"].pushed)]

\* the cycle before this one ran in a process that has since died
AfterRestart == hist # <<>> /\ hist[1].boot < ncrashes

\* the process that died had written value val under key in its last cycle
WrittenBefore(key, val) ==
    \E i \in Writes(hist[1].res) :
        hist[1].res[i].key = key /\ hist[1].res[i].val = val

\* C4 as stated: the record of a changed stream is overwritten, and saved,
\* before any send_message for the change; so after a crash at any point
\* after the write and a restart from the file, the next cycle, fetching the
\* same value, pushes no notification for it.
C4_WriteBeforeSendNoDuplicate ==
    /\ pc["timer"] = "send" =>
          /\ \E i \in Writes(cyc["timer"].res) :
                /\ cyc["timer"].res[i].key = Sending.key
                /\ cyc["timer"].res[i].val = Sending.val
          /\ Sending.key \in DOMAIN _cache
    /\ (AfterRestart /\ InCycle("timer")) =>
          \A n \in 1..Len(cyc["timer"].pushed) :
              ~WrittenBefore(cyc["timer"].pushed[n].key, cyc["timer"].pushed[n].val)

\* the attempts of the _send_push that has returned, to target id of a type
AttemptsTo(type, id) ==
    {n \in 1..Len(cyc["timer"].attempts) :
        /\ cyc["timer"].attempts[n].target_type = type
        /\ cyc["timer"].attempts[n].target = id}

\* _send_push has returned to the loop over all_updates
SendReturned == pc["timer"] = "push" /\ cyc["timer"].pushed # <<>>

\* C9: whatever send_message calls raise, a _send_push that returns has
\* called send_message exactly once for every configured group ("group",
\* str(id)) and every configured user ("private", str(id)), with the
\* message, and a send_message that raises leaves the coroutine in
\* _send_push or back in the loop of _check_and_push: nothing propagates.
C9_EveryTargetOnce ==
    /\ [](SendReturned =>
            /\ \A id \in ConfiguredGroups(config) :
                  Cardinality(AttemptsTo("group", id)) = 1
            /\ \A id \in ConfiguredUsers(config) :
                  Cardinality(AttemptsTo("private", id)) = 1
            /\ Len(cyc["timer"].attempts)
                  = Cardinality(ConfiguredGroups(config))
                    + Cardinality(ConfiguredUsers(config))
            /\ \A n \in 1..Len(cyc["timer"].attempts) :
                  /\ cyc["timer"].attempts[n].message = Sending.message
                  /\ cyc["timer"].attempts[n].target_id
                        = Str(cyc["timer"].attempts[n].target))
    /\ [][SendMessage("timer", FALSE) =>
             /\ pc'["timer"] \in {"send", "push"}
             /\ hist' = hist
             /\ Len(cyc'["timer"].attempts) = Len(cyc["timer"].attempts) + 1]_vars

\* Four targets were tried; the first send_message raised and a later one
\* returned.
C9_Witness ==
    /\ SendReturned
    /\ Len(cyc["timer"].attempts) = 4
    /\ ~cyc["timer"].attempts[1].ok
    /\ cyc["timer"].attempts[3].ok
    /\ ~cyc["timer"].attempts[4].ok

\* the latest cycle ended with an exception out of _check_and_push
LastCycleRaised == hist # <<>> /\ hist[1].end = "raised"

\* C8: an exception out of a timer-driven cycle puts the loop back to its
\* sleep with _running unchanged; the timer task ends only with _running
\* cleared by terminate; after a cycle that raised another cycle starts
\* unless terminate comes first, and cycles recur for ever or the plugin is
\* terminated.
C8_LoopSurvivesExceptions ==
    /\ [][(InCycle("timer") /\ LastCycleRaised' /\ hist' # hist) =>
             (pc'["timer"] = "sleep" /\ _running' = _running)]_vars
    /\ [](pc["timer"] = "stopped" => ~_running)
    /\ ((LastCycleRaised /\ pc["timer"] = "sleep")
           ~> (InCycle("timer") \/ pc["timer"] = "stopped"))
    /\ ([]<>InCycle("timer") \/ <>(pc["timer"] = "stopped"))

\* A cycle is running after a cycle that raised.
C8_Witness == LastCycleRaised /\ InCycle("timer") /\ _running

\* ---- C5
\* the policy of the claim, spelled out over the lists of a group
Excluded(gc, name) == \E k \in 1..Len(gc.exclude_repos) : gc.exclude_repos[k] = name
Included(gc, name) == \E k \in 1..Len(gc.include_repos) : gc.include_repos[k] = name
ListedRepos == {GitHub_RepoInfo(r) : r \in {RepoA, RepoB, RepoF}}

\* C5: for every group configuration and every short name, should_watch_repo
\* is False when the name is in exclude_repos, whatever include_repos holds,
\* and True for a name that is not excluded when include_repos is empty; and
\* every entry of the expansion was made for a listed repository whose short
\* name the group that made it does not exclude and, if the group has an
\* include list, includes.
C5_ExcludeWinsOverInclude ==
    /\ \A gc \in GroupConfigs \cup {GroupOff}, name \in RepoNames :
          /\ Excluded(gc, name) => ~should_watch_repo(gc, name)
          /\ (gc.include_repos = <<>> /\ ~Excluded(gc, name))
                => should_watch_repo(gc, name)
    /\ \A n \in 1..Len(_expanded_repos) :
          LET e == _expanded_repos[n]
          IN /\ e.info \in ListedRepos
             /\ \E g \in 1..Len(config.watch_groups) : config.watch_groups[g] = e.by
             /\ should_watch_repo(e.by, e.info.repo_name)
             /\ ~Excluded(e.by, e.info.repo_name)
             /\ e.by.include_repos = <<>> \/ Included(e.by, e.info.repo_name)
             /\ e.cfg.repo = e.info.name

\* A group that both includes and excludes "a" was listed with the
\* repositories a and b, and the expansion holds b alone.
C5_Witness ==
    /\ config.watch_groups = <<GroupOf(<<"a", "b">>, <<"a">>, "")>>
    /\ pc["timer"] = "sleep"
    /\ "github:org" \in DOMAIN _repo_cache
    /\ _repo_cache["github:org"] = {"org/a", "org/b"}
    /\ Len(_expanded_repos) = 1
    /\ _expanded_repos[1].info.repo_name = "b"

\* ---- C6
\* the answer is a list of per_page items or more
IsFull(resp) ==
    /\ ~resp.exc /\ resp.status = 200 /\ ~resp.bad
    /\ IsList(resp.body) /\ ListLen(resp.body.list) >= per_page
\* the answer is a non-empty list of fewer than per_page items
IsShort(resp) ==
    /\ ~resp.exc /\ resp.status = 200 /\ ~resp.bad
    /\ IsList(resp.body) /\ resp.body.list # <<>>
    /\ ListLen(resp.body.list) < per_page

RECURSIVE ItemsOf(_)
\* the items of the lists among the answers, in order
ItemsOf(resps) ==
    IF resps = <<>> THEN <<>>
    ELSE LET last == resps[Len(resps)]
             before == ItemsOf(SubSeq(resps, 1, Len(resps) - 1))
         IN IF IsFull(last) \/ IsShort(last) THEN Extend(before, last.body.list)
            ELSE before

\* requests are the pages 1..Len(requests) of url, in order, per_page 100
PagesInOrder(url, requests) ==
    /\ Len(requests) \in 1..10
    /\ \A n \in 1..Len(requests) :
          requests[n] = [url |-> url, page |-> n, per_page |-> 100]

\* a call in progress: every answer so far was a full page
CallInProgress ==
    listing.url # "" =>
        /\ PagesInOrder(listing.url, listing.requests)
        /\ Len(listing.responses) = Len(listing.requests) - 1
        /\ \A n \in 1..Len(listing.responses) : IsFull(listing.responses[n])
        /\ listing.all_data = ItemsOf(listing.responses)

\* a call that returned: it stopped at the first answer that is not a full
\* page, or at the tenth page, and returned the items accumulated
CallReturned(c) ==
    /\ PagesInOrder(c.url, c.requests)
    /\ Len(c.responses) = Len(c.requests)
    /\ \A n \in 1..(Len(c.responses) - 1) : IsFull(c.responses[n])
    /\ IsFull(c.responses[Len(c.responses)]) => Len(c.requests) = 10
    /\ c.data = ItemsOf(c.responses)

C6_Pages ==
    /\ CallInProgress
    /\ \A k \in 1..Len(listing.returned) : CallReturned(listing.returned[k])

\* C6: one call of _fetch_all_pages requests the pages 1, 2, ... of the url
\* in order with per_page 100 and never more than 10 of them; it goes on only
\* after a full page, stops at the first answer that is a failure, an empty or
\* non-list body or a short page, or at the tenth page, and returns the items
\* accumulated; and a call in progress returns.
C6_AtMostTenPages ==
    /\ []C6_Pages
    /\ \A k \in 0..1 :
          (listing.url # "" /\ Len(listing.returned) = k)
             ~> (Len(listing.returned) = k + 1)

\* A call returned after ten full pages, with a thousand items.
C6_Witness ==
    \E k \in 1..Len(listing.returned) :
        /\ Len(listing.returned[k].requests) = 10
        /\ ListLen(listing.returned[k].data) = 1000

\* ---- C11
\* the streams the cache file has a record of, and where upstream is now
MovedStreams ==
    {[key |-> "commit:github:octo/repo:main", val |-> "def5678"],
     [key |-> "release:github:octo/repo", val |-> "v1.1"]}

\* a check of the running cycle fetched a value of the stream
FetchSucceeded(s) ==
    \E i \in 1..Len(cyc["timer"].res) : cyc["timer"].res[i].key = s.key

\* the running cycle has handed a notification for the stream's value to
\* _send_push and the cache holds the value
NotifiedAndCached(s) ==
    /\ \E n \in 1..Len(cyc["timer"].pushed) :
          cyc["timer"].pushed[n].key = s.key /\ cyc["timer"].pushed[n].val = s.val
    /\ CachedValue(_cache, s.key) = Some(s.val)

ExpandDone(t) == pc[t] = "expand" /\ cyc[t].g > Len(config.watch_groups)

\* the listing of the group failed: its provider is not enabled, the call
\* raised, or no request of the call returned a repository
ListingFailed(entry) == entry.end \in {"skipped", "raised"} \/ entry.repos = <<>>

RECURSIVE ExpansionOf(_)
\* the expansion of a configuration that names only the groups of log, in
\* order, their listings being those of log
ExpansionOf(log) ==
    IF log = <<>> THEN <<>>
    ELSE ExpandInto(ExpansionOf(SubSeq(log, 1, Len(log) - 1)),
                    log[Len(log)].gc, log[Len(log)].repos)

NotFailed(entry) == ~ListingFailed(entry)

\* C12: the step that ends a group whose listing failed, or whose provider
\* is not enabled, changes no entry of _expanded_repos, and at the end of
\* _expand_group_configs the entries are those of the expansion of the
\* configuration without the groups that failed.
C12_FailedGroupContributesNothing ==
    /\ [][(Len(listing'.log) = Len(listing.log) + 1
             /\ ListingFailed(listing'.log[Len(listing'.log)]))
          => _expanded_repos' = _expanded_repos]_vars
    /\ [](\A t \in Tasks : ExpandDone(t) =>
            /\ Len(listing.log) = Len(config.watch_groups)
            /\ \A g \in 1..Len(listing.log) :
                  listing.log[g].gc = config.watch_groups[g]
            /\ _expanded_repos = ExpansionOf(SelectSeq(listing.log, NotFailed)))

\* The first group was listed and made an entry, the listing of the second
\* raised, and the entry is there at the end.
C12_Witness ==
    /\ ExpandDone("cmd")
    /\ Len(listing.log) = 2
    /\ listing.log[1].end = "listed" /\ listing.log[1].repos # <<>>
    /\ listing.log[2].end = "raised"
    /\ Len(_expanded_repos) = 1
    /\ _expanded_repos[1].by = listing.log[1].gc

\* ---- C13
\* the last operation on the cache wrote the file
LastWriteOk == hist # <<>> /\ hist[1].io = "ok"

\* a fresh UpdateCache on the file answers every query as this one does
SameAnswers ==
    LET fresh == UpdateCache_load(disk) IN
    /\ \A s \in StoreCommits :
          /\ get_cached_commit_sha(fresh.cache, s.provider, s.repo, s.branch)
                = get_cached_commit_sha(_cache, s.provider, s.repo, s.branch)
          /\ is_first_commit_check(fresh.cache, s.provider, s.repo, s.branch)
                = is_first_commit_check(_cache, s.provider, s.repo, s.branch)
    /\ \A p \in StoreProviders, r \in StoreRepos :
          /\ get_cached_release_tag(fresh.cache, p, r)
                = get_cached_release_tag(_cache, p, r)
          /\ is_first_release_check(fresh.cache, p, r)
                = is_first_release_check(_cache, p, r)
    /\ \A p \in StoreProviders, g \in {"org", "grp"} :
          get_group_cached_repos(fresh.repo_cache, p, g)
             = get_group_cached_repos(_repo_cache, p, g)

\* C13: after a mutating operation of the cache whose write of the file
\* succeeded, the file holds the in-memory state, and an UpdateCache loaded
\* from the file has the same records and group sets and gives the same
\* answers.
C13_StoreEqualsMemory ==
    LastWriteOk =>
        /\ disk = DiskOf(_cache)
        /\ UpdateCache_load(disk) = [cache |-> _cache, repo_cache |-> _repo_cache]
        /\ SameAnswers

\* Records and a group set are in memory and in the file after a scoped
\* clear.
C13_Witness ==
    /\ LastWriteOk
    /\ hist[1].op = "clear_cache(provider, repo)"
    /\ ~is_first_commit_check(_cache, "gitlab", "grp/lib", "github")
    /\ get_cached_release_tag(_cache, "github", "octo/repo") = Some("v1.1")
    /\ get_group_cached_repos(_repo_cache, "github", "org") = {"org/a"}
    /\ disk = DiskOf(_cache)

\* ---- C14
\* the checks of the timer's cycle that read or wrote a cache record
Touched == {i \in 1..Len(cyc["timer"].res) : cyc["timer"].res[i].key # ""}

\* entries i and j of the cycle used the same cache record
SharedRecord(i, j) ==
    /\ i \in Touched /\ j \in Touched /\ i < j
    /\ cyc["timer"].res[i].key = cyc["timer"].res[j].key

\* C14 as stated: two watch entries use the same cache record in a cycle
\* only if they are identical in provider, repo, branch and watch kind.
C14_SharedOnlyIfIdentical ==
    \A i, j \in 1..Len(cyc["timer"].res) :
        SharedRecord(i, j) =>
            LET a == cyc["timer"].all_repos[i]
                b == cyc["timer"].all_repos[j]
            IN /\ a.provider = b.provider /\ a.repo = b.repo
               /\ a.branch = b.branch /\ a.watch_type = b.watch_type

\* the branches a commits entry can be checked on: the one it names, else
\* the one get_default_branch gives
BranchesOf(rc) == IF rc.branch # "" THEN {rc.branch} ELSE {"main", "dev"}

\* C14, amended: two watch entries use the same cache record in a cycle
\* only if they are identical in provider, repo and watch kind and, for
\* commits entries, were checked on the same branch: entries that name
\* different branches never share a record, an entry with an empty branch
\* shares the record of the entry that names the branch it resolves to, and
\* release entries share their record whatever their branch.
C14_SharedOnlyIfSameStream ==
    \A i, j \in 1..Len(cyc["timer"].res) :
        SharedRecord(i, j) =>
            LET a == cyc["timer"].all_repos[i]
                b == cyc["timer"].all_repos[j]
                key == cyc["timer"].res[i].key
            IN /\ a.provider = b.provider /\ a.repo = b.repo
               /\ a.watch_type = b.watch_type
               /\ a.watch_type = "commits" =>
                     \E br \in BranchesOf(a) \cap BranchesOf(b) :
                         key = "commit:" \o a.provider \o ":" \o a.repo \o ":" \o br
               /\ a.watch_type # "commits" =>
                     key = "release:" \o a.provider \o ":" \o a.repo

\* Two release entries with different branches used one record.
C14_Witness ==
    /\ SharedRecord(1, 2)
    /\ cyc["timer"].all_repos[1].watch_type = "releases"
    /\ cyc["timer"].all_repos[1].branch # cyc["timer"].all_repos[2].branch

\* ---- C15
\* the provider field of a commit or release key ("" for another key)
ProviderOfKey(k) ==
    IF \E s \in StoreCommits : k = _get_commit_key(s.provider, s.repo, s.branch)
    THEN (CHOOSE s \in StoreCommits :
             k = _get_commit_key(s.provider, s.repo, s.branch)).provider
    ELSE IF \E s \in StoreReleases : k = _get_release_key(s.provider, s.repo)
    THEN (CHOOSE s \in StoreReleases :
             k = _get_release_key(s.provider, s.repo)).provider
    ELSE ""

\* the commit and release records of a cache
Records(cache) == {k \in DOMAIN cache : ~StartsWith(k, "_")}

\* C15 as stated: clear_cache(provider=P) removes every commit and release
\* record whose provider field is P and leaves every record of another
\* provider, and the group sets, unchanged.
C15_ClearProviderFrame ==
    [][\A p \in StoreProviders :
          (\E io \in StoreWrites : ClearProvider(p, io)) =>
              /\ \A k \in Records(_cache) :
                    IF ProviderOfKey(k) = p
                    THEN k \notin DOMAIN _cache'
                    ELSE k \in DOMAIN _cache' /\ _cache'[k] = _cache[k]
              /\ _repo_cache' = _repo_cache]_vars

\* ---- C16
\* the repo field of a commit or release key ("" for another key)
RepoOfKey(k) ==
    IF \E s \in StoreCommits : k = _get_commit_key(s.provider, s.repo, s.branch)
    THEN (CHOOSE s \in StoreCommits :
             k = _get_commit_key(s.provider, s.repo, s.branch)).repo
    ELSE IF \E s \in StoreReleases : k = _get_release_key(s.provider, s.repo)
    THEN (CHOOSE s \in StoreReleases :
             k = _get_release_key(s.provider, s.repo)).repo
    ELSE ""

\* C16 as stated: clear_cache(provider=P, repo=R) removes exactly the commit
\* records and the release record of provider P and repo R and leaves the
\* records of every other (provider, repo) pair unchanged.
C16_ClearRepoFrame ==
    [][\A p \in StoreProviders, r \in StoreRepos :
          (\E io \in StoreWrites : ClearRepo(p, r, io)) =>
              \A k \in Records(_cache) :
                  IF ProviderOfKey(k) = p /\ RepoOfKey(k) = r
                  THEN k \notin DOMAIN _cache'
                  ELSE k \in DOMAIN _cache' /\ _cache'[k] = _cache[k]]_vars

\* ---- C17
\* the last operation was clear_cache() with no argument
ClearedAll == hist # <<>> /\ hist[1].op = "clear_cache()"

\* a cache with no commit or release record and no group set: every first
\* check is True, every group set is empty, every key starts with "_"
IsCleared(cache, repo_cache) ==
    /\ \A s \in StoreCommits :
          is_first_commit_check(cache, s.provider, s.repo, s.branch)
    /\ \A p \in StoreProviders, r \in StoreRepos : is_first_release_check(cache, p, r)
    /\ \A p \in StoreProviders, g \in {"org", "grp"} :
          get_group_cached_repos(repo_cache, p, g) = {}
    /\ \A k \in DOMAIN cache : StartsWith(k, "_")

\* C17 as stated: after clear_cache() the cache is cleared in memory and on
\* disk.
C17_ClearAllEverywhere ==
    ClearedAll =>
        /\ IsCleared(_cache, _repo_cache)
        /\ disk.state = "ok"
        /\ IsCleared(UpdateCache_load(disk).cache, UpdateCache_load(disk).repo_cache)

\* C17, amended: after clear_cache() the cache is cleared in memory, and on
\* disk as well when the write of the file succeeded; when it failed the
\* file still holds what it held.
C17_ClearAllInMemory ==
    /\ [](ClearedAll =>
            /\ IsCleared(_cache, _repo_cache)
            /\ _cache = [_group_repos |-> EmptyDict]
            /\ hist[1].io = "ok" => disk = DiskOf([_group_repos |-> EmptyDict]))
    /\ [][\A io \in StoreWrites \ {"ok"} : ClearAll(io) => disk' = disk]_vars

\* clear_cache() was called on a cache with records and a group set, and
\* memory and file are cleared.
C17_Witness ==
    /\ ClearedAll /\ hist[1].io = "ok"
    /\ IsCleared(_cache, _repo_cache)
    /\ disk = DiskOf(_cache)

\* ---- C18
\* this step is a clear_cache call whose scope covers the record k: no
\* argument, the provider of k, or the provider and the repo of k
CoveringClear(k) ==
    \E io \in StoreWrites :
        \/ ClearAll(io)
        \/ ClearProvider(ProviderOfKey(k), io)
        \/ ClearRepo(ProviderOfKey(k), RepoOfKey(k), io)

\* every commit and release record of the cache is a record after the step
RecordsKept == Records(_cache) \subseteq Records(_cache')

\* this step is a clear_cache call
AnyClear ==
    \E io \in StoreWrites :
        \/ ClearAll(io)
        \/ \E p \in StoreProviders : ClearProvider(p, io)
        \/ \E p \in StoreProviders, r \in StoreRepos : ClearRepo(p, r, io)

\* No set_* operation, timer tick, step of a check cycle or step of a group
\* refresh removes a commit or release record: a step that does is a
\* clear_cache call.
C18_NoExpiry == [][RecordsKept \/ AnyClear]_vars

\* C18 as stated: a commit or release record, once it exists, exists in
\* every later state until a clear_cache call whose scope covers its key.
C18_KeptUntilCoveringClear ==
    [][\A k \in Records(_cache) : k \in DOMAIN _cache' \/ CoveringClear(k)]_vars

\* ---- C19
\* coroutine t has a provider request out: get_default_branch, the commits
\* or release request, or a page of a group listing
RequestOut(t) == pc[t] \in {"wait_branch", "wait_fetch", "wait_page"}
InFlight == {t \in Tasks : RequestOut(t)}

TerminateInCycle == Terminate /\ InCycle("timer")

\* the checks of summary h that recorded an update the cycle is to notify
Notifiable(h) ==
    {i \in 1..Len(h.res) :
        \/ h.res[i].kind = "changed"
        \/ h.res[i].kind = "first" /\ config.first_push}

\* summary h holds a notification, handed to _send_push, for check i
Handed(h, i) ==
    \E n \in 1..Len(h.pushed) :
        h.pushed[n].key = h.res[i].key /\ h.pushed[n].val = h.res[i].val

\* No timer-driven cycle starts once terminate has been called.
C20_NoCycleAfterTerminate ==
    [][~_running => ~(~InCycle("timer") /\ InCycle("timer")')]_vars

\* a cycle cut short by terminate left no check undone and no recorded
\* update without its notification
C20_NothingLost ==
    (~_running /\ hist # <<>> /\ hist[1].end = "cancelled") =>
        /\ Len(hist[1].res) = Len(config.watch_repos)
        /\ \A i \in Notifiable(hist[1]) : Handed(hist[1], i)

\* C20 as stated: terminate called while a timer-driven cycle is in flight
\* leaves the cycle where it is; the cycle a terminated plugin made last ran
\* every check and handed a notification to _send_push for every update it
\* recorded; no timer-driven cycle starts after terminate.
C20_InFlightCycleFinishes ==
    /\ [][TerminateInCycle =>
             (pc'["timer"] = pc["timer"] /\ cyc'["timer"] = cyc["timer"])]_vars
    /\ []C20_NothingLost
    /\ C20_NoCycleAfterTerminate

\* ---- C21
\* the last call of an adapter
LastCall == hist[1]

\* the object the adapter of the call reads from a decoded body: the body
\* for GitHub, the first item of the array for GitLab (the first release that
\* is no draft), the first item or the body for CNB
ObjectRead(call) ==
    LET body == call.resp.body IN
    CASE call.adapter = "github" -> body
      [] call.adapter = "gitlab" ->
            IF call.op = "get_latest_release" THEN FirstFormal(body.list)
            ELSE First(body)
      [] call.adapter = "cnb" -> CNB_Object(body)

\* the names of the identifying field: sha / id of a commit, the tag of a
\* release
IdFields(call) ==
    IF call.op = "get_latest_commit"
    THEN (CASE call.adapter = "github" -> {"sha"}
            [] call.adapter = "gitlab" -> {"id"}
            [] call.adapter = "cnb" -> {"sha", "id"})
    ELSE (CASE call.adapter = "github" -> {"tag_name"}
            [] call.adapter = "gitlab" -> {"tag_name"}
            [] call.adapter = "cnb" -> {"tag_name", "tag"})

\* the endpoint answered 404, or an empty body or array
AnsweredNothing(call) ==
    \/ call.resp.status = 404
    \/ call.resp = RespJson(EmptyDict)
    \/ call.resp = RespJson(JList(<<>>))

\* the endpoint answered an object, or an array of objects, and the object
\* the adapter reads has no identifying field
LacksId(call) ==
    /\ _fetch_json(call.resp) # None
    /\ TruthyBody(call.resp.body)
    /\ call.adapter = "gitlab" => IsList(call.resp.body)
    /\ call.adapter = "github" => ~IsList(call.resp.body)
    /\ IdFields(call) \cap DOMAIN ObjectRead(call) = {}

\* the identifying value of what the call returned
IdOf(call) ==
    IF call.op = "get_latest_commit" THEN call.ret[1].sha ELSE call.ret[1].tag

\* C21 as stated: get_latest_commit and get_latest_release of each adapter
\* return None when the endpoint answers 404, an empty body or array, or an
\* object without the identifying field, and never return a CommitInfo with
\* an empty sha or a ReleaseInfo with an empty tag.
C21_AbsentWithoutId ==
    hist # <<>> =>
        /\ (AnsweredNothing(LastCall) \/ LacksId(LastCall)) => LastCall.ret = None
        /\ LastCall.ret # None => IdOf(LastCall) # ""

\* ---- C22
\* the stream of the entry the timer's cycle is fetching, and the value the
\* answer resp carries for it ("" if it carries none)
FetchedKey ==
    LET rc == cyc["timer"].all_repos[cyc["timer"].i] IN
    IF rc.watch_type = "commits"
    THEN _get_commit_key(rc.provider, rc.repo, cyc["timer"].branch)
    ELSE _get_release_key(rc.provider, rc.repo)

FetchedValue(resp) ==
    LET rc == cyc["timer"].all_repos[cyc["timer"].i]
        data == _fetch_json(resp)
    IN IF data = None THEN ""
       ELSE IF rc.watch_type = "commits" THEN Get(data[1], "sha", "")
       ELSE Get(data[1], "tag_name", "")

\* This step is a check of the timer's cycle whose fetch returned the value
\* the cache holds for the stream.
FetchedSame(resp) ==
    /\ pc["timer"] = "wait_fetch"
    /\ FetchedValue(resp) # ""
    /\ CachedValue(_cache, FetchedKey) = Some(FetchedValue(resp))
    /\ \E io \in WriteOutcomes : FetchDone("timer", resp, io)

\* C22: a check whose fetched sha/tag equals the cached value of the stream
\* leaves the cache in memory and the file unchanged, whatever a write would
\* have done, and adds no update to notify.
C22_UnchangedIsSilent ==
    [][\A resp \in CommitResponses \cup ReleaseResponses :
          FetchedSame(resp) =>
             /\ _cache' = _cache
             /\ _repo_cache' = _repo_cache
             /\ disk' = disk
             /\ cyc'["timer"].all_updates = cyc["timer"].all_updates
             /\ cyc'["timer"].update_count = cyc["timer"].update_count
             /\ cyc'["timer"].pushed = cyc["timer"].pushed]_vars

\* A check found the cached value again while the file, which an earlier
\* write could not open, still does not exist; nothing was notified.
C22_Witness ==
    /\ pc["timer"] = "loop"
    /\ cyc["timer"].res # <<>>
    /\ LastCheck.kind = "same"
    /\ CachedValue(_cache, LastCheck.key) = Some(LastCheck.val)
    /\ disk.state = "missing"
    /\ cyc["timer"].all_updates = <<>>

\* ---- C23
\* the order in which the values of the stream appeared upstream
Age(v) == IF v = "abc1234" THEN 1 ELSE 2

\* the notifications handed to _send_push: by the cycles in progress and by
\* the cycle that ended last
Notifications ==
    cyc["timer"].pushed \o cyc["cmd"].pushed
    \o (IF hist # <<>> THEN hist[1].pushed ELSE <<>>)

\* the stream of the watched entry
RaceKey == _get_commit_key("github", "octo/repo", "main")

\* no value of a stream is notified twice
NotifiedOnce ==
    \A m, n \in 1..Len(Notifications) :
        (Notifications[m].key = Notifications[n].key
         /\ Notifications[m].val = Notifications[n].val) => m = n

\* this step replaces the cached value of the stream by an older one
StaleOverwrite ==
    /\ CachedValue(_cache, RaceKey) # None
    /\ CachedValue(_cache', RaceKey) # None
    /\ Age(CachedValue(_cache', RaceKey)[1]) < Age(CachedValue(_cache, RaceKey)[1])

\* C23 as stated: while a git_push_check cycle and a timer-driven cycle
\* overlap, no value of a stream is notified more than once and no step
\* overwrites the cached value of a stream with an older value.
C23_NoDuplicateNoStaleWrite ==
    /\ []NotifiedOnce
    /\ [][~StaleOverwrite]_vars

\* the first conjunct alone
C23_NotifiedOnce == NotifiedOnce

\* ---- C24
\* the repositories of a listing, without their multiplicities
ReposOf(entry) == {entry.repos[k].d : k \in 1..Len(entry.repos)}

\* the repository passes the filter of the group
PassesFilter(gc, info) ==
    /\ info.repo_name \notin SeqToSet(gc.exclude_repos)
    /\ gc.include_repos = <<>> \/ info.repo_name \in SeqToSet(gc.include_repos)

\* the branch an entry made from the group and the repository is to have
BranchFor(gc, info) == IF gc.branch # "" THEN gc.branch ELSE info.default_branch

\* provider:repo:branch:watch_type of that entry
KeyFor(gc, info) ==
    gc.provider \o ":" \o info.name \o ":" \o BranchFor(gc, info) \o ":" \o gc.watch_type

\* the positions of the log whose group was listed and yields the key
Yielding(key) ==
    {g \in 1..Len(listing.log) :
        /\ listing.log[g].end = "listed"
        /\ \E info \in ReposOf(listing.log[g]) :
              PassesFilter(listing.log[g].gc, info) /\ KeyFor(listing.log[g].gc, info) = key}

\* the keys the listed groups of this expansion yield
YieldedKeys ==
    UNION {{KeyFor(listing.log[g].gc, info) :
               info \in {r \in ReposOf(listing.log[g]) :
                            PassesFilter(listing.log[g].gc, r)}} :
           g \in {h \in 1..Len(listing.log) : listing.log[h].end = "listed"}}

Last(S) == CHOOSE g \in S : \A h \in S : h <= g

\* C24: when _expand_group_configs comes to its end, _expanded_repos holds
\* exactly one entry for each key provider:repo:branch:watch_type that a
\* listed repository passing the filter of an enabled group yields, and
\* nothing else, whatever it held before; the branch of an entry is the
\* override of its group if there is one, else the default branch of the
\* repository; the entry of a key that several groups yield is that of the
\* last of them in the configuration.
C24_ExpansionIsExact ==
    \A t \in Tasks :
        ExpandDone(t) =>
            /\ \A m, n \in 1..Len(_expanded_repos) :
                  _expanded_repos[m].key = _expanded_repos[n].key => m = n
            /\ {_expanded_repos[n].key : n \in 1..Len(_expanded_repos)} = YieldedKeys
            /\ \A n \in 1..Len(_expanded_repos) :
                  LET e == _expanded_repos[n] IN
                  /\ e.key = KeyFor(e.by, e.info)
                  /\ e.cfg.provider = e.by.provider
                  /\ e.cfg.repo = e.info.name
                  /\ e.cfg.watch_type = e.by.watch_type
                  /\ e.cfg.branch = BranchFor(e.by, e.info)
                  /\ e.by = listing.log[Last(Yielding(e.key))].gc

\* A refresh has come to its end; two groups yielded the key of an entry,
\* which is that of the second; another entry has the default branch of its
\* repository.
C24_Witness ==
    /\ ExpandDone("cmd")
    /\ \E n \in 1..Len(_expanded_repos) :
          /\ Cardinality(Yielding(_expanded_repos[n].key)) = 2
          /\ _expanded_repos[n].by = config.watch_groups[2]
    /\ \E n \in 1..Len(_expanded_repos) : _expanded_repos[n].cfg.branch = "dev"

\* ---- C25
\* this step ends the listing of a group: the log has one entry more
GroupEnded == Len(listing'.log) = Len(listing.log) + 1

\* the entry of the group that has just ended
Ended == listing'.log[Len(listing'.log)]

\* the short names, and the full names, of the repositories of a listing
ShortNames(entry) == {r.repo_name : r \in ReposOf(entry)}
FullNames(entry) == {r.name : r \in ReposOf(entry)}

\* the set persisted for the group of the entry, in a cache and in a file
PersistedIn(repo_cache, entry) ==
    get_group_cached_repos(repo_cache, entry.gc.provider, entry.gc.group)
PersistedOn(file, entry) == PersistedIn(UpdateCache_load(file).repo_cache, entry)

\* C25 as stated: when the listing of a group succeeds, the set persisted
\* for its (provider, group) pair is the set of the short names of its
\* repositories; when it fails, the set persisted before is unchanged.
C25_PersistedShortNames ==
    [][GroupEnded =>
          IF ListingFailed(Ended)
          THEN /\ PersistedIn(_repo_cache', Ended) = PersistedIn(_repo_cache, Ended)
               /\ PersistedOn(disk', Ended) = PersistedOn(disk, Ended)
          ELSE /\ PersistedIn(_repo_cache', Ended) = ShortNames(Ended)
               /\ PersistedOn(disk', Ended) = ShortNames(Ended)]_vars

\* What the code does on success: the set persisted is that of the full
\* names of all repositories of the listing.
C25_PersistedFullNames ==
    [][(GroupEnded /\ ~ListingFailed(Ended)) =>
          /\ PersistedIn(_repo_cache', Ended) = FullNames(Ended)
          /\ PersistedOn(disk', Ended) = FullNames(Ended)]_vars

\* the second half of C25 alone
C25_FailureKeepsSet ==
    [][(GroupEnded /\ ListingFailed(Ended)) =>
          PersistedIn(_repo_cache', Ended) = PersistedIn(_repo_cache, Ended)]_vars

\* ---- C26
\* the entries a cycle iterates over when the expansion is complete: the
\* direct entries, then those of the groups
CompleteList ==
    config.watch_repos \o [n \in 1..Len(FullExpansion) |-> FullExpansion[n].cfg]

\* C26: every listing returning the same repositories, the complete
\* expansion is the same before and after a refresh, and a cycle, also one
\* that starts while a refresh is in progress, iterates over the direct
\* entries and that complete expansion.
C26_NeverPartialExpansion ==
    \A t \in Tasks : InCycle(t) => cyc[t].all_repos = CompleteList

\* ---- C27
\* the step is a start of the plugin
Started == ncrashes' = ncrashes + 1

\* the positions of the cycle of t at which a fetch returned a value
Fetched(t) ==
    {n \in 1..Len(cyc[t].res) : cyc[t].res[n].kind \notin {"skip", "nodata"}}

\* the cycle t is in began with an empty cache after a restart: no cycle
\* since the restart has recorded anything (a _save leaves "_group_repos"
\* in _cache)
FirstSinceEmptyStart(t) ==
    ncrashes >= 1 /\ InCycle(t) /\ cyc[t].cache0 = EmptyDict

Unbranched(rc) == rc.watch_type = "commits" /\ rc.branch = ""
EntryAt(n) == cyc["timer"].all_repos[n]

\* the step is the end of a check of such an entry in which a commit was
\* fetched
DefaultBranchCheck ==
    /\ pc["timer"] = "wait_fetch" /\ pc'["timer"] = "loop"
    /\ Unbranched(EntryAt(cyc["timer"].i))
    /\ cyc'["timer"].res[cyc["timer"].i].kind # "nodata"

\* what that check found, and the key it used
CheckKind == cyc'["timer"].res[cyc["timer"].i].kind
CheckKey == cyc'["timer"].res[cyc["timer"].i].key

\* the key the check of the same entry used in the previous cycle, "" if
\* there was no such cycle or it fetched no commit
PreviousKey ==
    IF hist = <<>> \/ Len(hist[1].res) < cyc["timer"].i THEN ""
    ELSE hist[1].res[cyc["timer"].i].key

BranchChanged == PreviousKey # "" /\ PreviousKey # CheckKey

RecordKept(k) ==
    (k \in DOMAIN _cache) => (k \in DOMAIN _cache' /\ _cache'[k] = _cache[k])

\* the records of the stream keys other than k are the same before and after
OnlyTouches(k) ==
    \A j \in (DOMAIN _cache \cup DOMAIN _cache') \ {k, "_group_repos"} :
        j \in DOMAIN _cache /\ RecordKept(j)

UnnamedKey(rc) == _get_commit_key(rc.provider, rc.repo, "")

\* the request of a commits entry with no branch goes out for a branch that
\* has a name, and the check of the entry uses the key of that branch and no
\* record under the empty branch exists
ResolvedBranchUsed ==
    /\ [](\A t \in Tasks :
            (pc[t] = "wait_fetch" /\ Unbranched(cyc[t].all_repos[cyc[t].i])) =>
                /\ cyc[t].branch \in {"main", "dev"}
                /\ UnnamedKey(cyc[t].all_repos[cyc[t].i]) \notin DOMAIN _cache)
    /\ [][DefaultBranchCheck =>
            /\ CheckKey = _get_commit_key(EntryAt(cyc["timer"].i).provider,
                                          EntryAt(cyc["timer"].i).repo,
                                          cyc["timer"].branch)
            /\ OnlyTouches(CheckKey)
            /\ UnnamedKey(EntryAt(cyc["timer"].i)) \notin DOMAIN _cache']_vars

\* C28 as stated: a commits entry with no branch is checked under the key of
\* the resolved branch, never under the empty branch, and when that key is
\* not the one the entry's check used in the previous cycle the check is a
\* first observation and the record of the previous key is left unchanged.
C28_NewBranchIsFirst ==
    /\ ResolvedBranchUsed
    /\ [][(DefaultBranchCheck /\ BranchChanged) =>
            /\ CheckKind = "first"
            /\ RecordKept(PreviousKey)]_vars

\* C28, amended: as above, but the check is a first observation exactly
\* when the cache holds no record under the key of the resolved branch; a
\* record written under that key earlier is compared with.
C28_NewBranchKeyOnly ==
    /\ ResolvedBranchUsed
    /\ [][DefaultBranchCheck =>
            /\ (CheckKind = "first") = (CheckKey \notin DOMAIN _cache)
            /\ (CheckKind = "same") =
                  (CachedValue(_cache, CheckKey)
                      = Some(cyc'["timer"].res[cyc["timer"].i].val))
            /\ BranchChanged => RecordKept(PreviousKey)]_vars

\* the second cycle has resolved the branch of the entry to another one than
\* the first, has recorded the commit as a first observation, and the
\* record of the branch of the first cycle is still there
C28_Witness ==
    /\ pc["timer"] = "loop" /\ hist # <<>>
    /\ \E n \in 1..Len(cyc["timer"].res) :
          /\ Unbranched(EntryAt(n))
          /\ cyc["timer"].res[n].kind = "first"
          /\ cyc["timer"].res[n].key = "commit:github:octo/repo:dev"
          /\ hist[1].res[n].key = "commit:github:octo/repo:main"
          /\ hist[1].res[n].kind = "changed"
          /\ CachedValue(_cache, hist[1].res[n].key) = Some(hist[1].res[n].val)

====
